---- MODULE Spec2Model ----
(***************************************************************************)
(* Model of github.com/alarmistdev/status: the HealthChecker orchestrator  *)
(* (registration, concurrent Check, /health handler) and the probe         *)
(* combinators of package check (All, Any, WithThreshold).                 *)
(*                                                                         *)
(* Errors are modelled by their message: a sequence of string tokens,      *)
(* <<>> being the nil error.  fmt.Errorf("prefix: %w", err) prepends its   *)
(* tokens to the wrapped error's message.  Durations are not modelled.     *)
(***************************************************************************)
EXTENDS Integers, Sequences, FiniteSets, TLC

VARIABLES
    targets,     \* HealthChecker.targets
    hpc,         \* position of the /health handler: idle, checking, responded
    query,       \* query parameter of the request being served
    respCode,    \* status code written by the handler (0: nothing written)
    respBody,    \* body written by the handler
    cpc,         \* position of HealthChecker.Check: none, launch, wait, returned
    ci,          \* number of goroutines Check has launched (loop variable i)
    results,     \* Check's pre-sized results slice
    ckRet,       \* what Check returned: [results, err]
    finished,    \* indices of the workers of Check in the order they finished
    callerErr,   \* Err() of the caller's context (<<>>: not done)
    gctxErr,     \* Err() of the context derived by errgroup.WithContext
    gErr,        \* the errgroup's first non-nil error (<<>>: none)
    wpc,         \* per worker goroutine: none, running, done
    comb,        \* the combinator being run: [kind, checks, threshold]
    kpc,         \* position of the combinator's Check: idle, launch, wait, returned
    subErr,      \* per worker of a combinator: what its sub-probe returned (err)
    chan,        \* the results channel of Any / WithThreshold
    kRet,        \* the error the combinator's Check returned
    wr,          \* the wrapper being run: [kind, attempts, delay, script]
    rpc,         \* position of the wrapper's Check: idle, invoke, select,
                 \*   selectTimer, selectDone, returned
    ri,          \* loop variable i of WithRetries
    rInv,        \* what each invocation of the wrapped probe returned, in order
    rLastErr,    \* lastErr of WithRetries
    rRet,        \* the error the wrapper's Check returned
    tctxErr,     \* Err() of the context derived by context.WithTimeout
    tFired,      \* the timer of that context has fired (d has elapsed)
    rWaitCancel, \* invocations made when the caller's context was cancelled
                 \*   during a wait of WithRetries (-1: no such cancellation)
    now,         \* the clock, in ticks of half a second (time.Now(); 0 is the zero Time)
    world,       \* what the Docker daemon would list: [err, containers]
    dc,          \* dockerCheck: [labels, interval, timeout]
    dcPc,        \* position of newCheck: none, refresh, constructed, failed
    newErr,      \* the error newCheck returned
    loopPc,      \* position of dc.loop: none, start, select, refresh, exited
    dcLastErr,   \* dc.lastErr
    dcLastChecked, \* dc.lastChecked
    dcNextTick,  \* when the loop's ticker fires next
    dcTick,      \* a tick waits in ticker.C (capacity 1)
    dcCtxErr,    \* Err() of dc.ctx
    dcClosePc,   \* position of dc.Close: none, wait, closed
    dcRet,       \* the last dc.Check: its context's Err(), its locals lastErr and
                 \*   time.Since(lastChecked), and the error it returned
    pc,          \* pingCheck: [staleAfter]
    pcPc,        \* position of PingCheck: none, running, failed
    prodPc,      \* position of pc.produceLoop: none, start, select, exited
    consPc,      \* position of pc.consumeLoop: none, select, exited
    store,       \* the InMemoryPingStore: [last]
    msgs,        \* timestamps of the messages waiting in partitionConsumer.Messages()
    pcNextTick,  \* when the producer's ticker fires next
    pcTick,      \* a tick waits in ticker.C (capacity 1)
    pcCtxErr,    \* Err() of pc.ctx
    pcClosePc,   \* position of pc.Close: none, wait, closed
    pcRet,       \* the pc.Check calls: how many (up to 2), and of the last one the
                 \*   context's Err(), its local last and the error it returned
    healthResults, \* the status page handler's healthResults (what Check returned)
    data,        \* the PageData it renders: [served, HealthResults, HealthGroups]
    psPc,        \* per caller of the ping store: idle, locked, written (inside
                 \*   SetProcessed), rlocked (inside LastProcessed)
    psTs,        \* per caller of SetProcessed: its argument ts
    lastDone,    \* the ts of the SetProcessed call that returned last (0: none yet)
    readRet,     \* what the last LastProcessed call returned: [called, last, err]
    rf,          \* per goroutine calling dc.refresh ("new": newCheck, "loop"): its
                 \*   position (idle, list, lock, locked, wroteErr, wroteChecked),
                 \*   its local err and the number of its refresh
    rfCount,     \* number of dc.refresh calls begun
    dcFrom,      \* the refresh that wrote dc.lastErr and the one that wrote
                 \*   dc.lastChecked: [err, checked] (0: never written)
    dcTasks,     \* number of `go dc.loop()` statements executed
    ck           \* per caller of dc.Check: its position (idle, rlocked, readErr,
                 \*   readChecked) and its locals lastErr, lastChecked, with the
                 \*   refresh each was written by

hcVars == <<targets, hpc, query, respCode, respBody, cpc, ci, results, ckRet, finished>>
egVars == <<callerErr, gctxErr, gErr, wpc>>
cbVars == <<comb, kpc, subErr, chan, kRet>>
wrVars == <<wr, rpc, ri, rInv, rLastErr, rRet, tctxErr, tFired, rWaitCancel>>
dkVars == <<world, dc, dcPc, newErr, loopPc, dcLastErr, dcLastChecked, dcNextTick,
            dcTick, dcCtxErr, dcClosePc, dcRet>>
kfVars == <<pc, pcPc, prodPc, consPc, store, msgs, pcNextTick, pcTick, pcCtxErr,
            pcClosePc, pcRet>>
bgVars == <<now, dkVars, kfVars>>
pgVars == <<healthResults, data>>
psVars == <<psPc, psTs, lastDone, readRet>>
muVars == <<rf, rfCount, dcFrom, dcTasks, ck>>
xVars == <<wrVars, bgVars, pgVars, psVars, muVars>>
vars == <<hcVars, egVars, cbVars, xVars>>

----------------------------------------------------------------------------
(* Bounds *)

MaxTargets == 2

MaxChecks == 2

----------------------------------------------------------------------------
(* Errors and contexts *)

Nil == <<>>

Canceled == <<"context canceled">>

DeadlineExceeded == <<"context deadline exceeded">>

CtxErrors == {Canceled, DeadlineExceeded}

\* fmt.Errorf(prefix + "%w", err); a nil operand of %w prints as %!w(<nil>).
Wrap(prefix, err) == <<prefix>> \o (IF err = Nil THEN <<"%!w(<nil>)">> ELSE err)

\* error.Error(): the message of a non-nil error.
ErrorText(err) == err

----------------------------------------------------------------------------
(* Probes: implementations of check.Check.  A probe is [kind, id]:         *)
(*   ok    returns nil, whatever the context                                *)
(*   fail  returns its own error, whatever the context                      *)
(*   block waits for ctx.Done() and returns ctx.Err()                       *)
(*   hang  never returns and does not observe its context                   *)

ProbeKinds == {"ok", "fail", "block", "hang"}

NoProbe == [kind |-> "nil", id |-> ""]

ProbeErr(id) == <<"probe error: ", id>>

\* Whether a running probe can return now, given Err() of the context it got.
ProbeCanReturn(p, ctxErr) ==
    CASE p.kind = "ok" -> TRUE
      [] p.kind = "fail" -> TRUE
      [] p.kind = "block" -> ctxErr # Nil
      [] OTHER -> FALSE

\* What it returns then.
ProbeReturn(p, ctxErr) ==
    CASE p.kind = "ok" -> Nil
      [] p.kind = "fail" -> ProbeErr(p.id)
      [] OTHER -> ctxErr

----------------------------------------------------------------------------
(* HealthChecker: targets and options *)

TargetImportanceLow == "low"

TargetImportanceHigh == "high"

HealthTargetStatusOk == "ok"

HealthTargetStatusFail == "fail"

WithImportance(importance) == [field |-> "Importance", value |-> importance]

WithIcon(icon) == [field |-> "Icon", value |-> icon]

WithGroup(group) == [field |-> "Group", value |-> group]

\* opt(&target)
ApplyOption(t, opt) ==
    CASE opt.field = "Importance" -> [t EXCEPT !.Importance = opt.value]
      [] opt.field = "Icon" -> [t EXCEPT !.Icon = opt.value]
      [] OTHER -> [t EXCEPT !.Group = opt.value]

RECURSIVE ApplyOptions(_, _)
ApplyOptions(t, opts) ==
    IF opts = <<>> THEN t
    ELSE ApplyOptions(ApplyOption(t, Head(opts)), Tail(opts))

\* The options applied in reverse: of several for one field the first one wins.
RECURSIVE ApplyOptionsFirstWins(_, _)
ApplyOptionsFirstWins(t, opts) ==
    IF opts = <<>> THEN t
    ELSE ApplyOption(ApplyOptionsFirstWins(t, Tail(opts)), Head(opts))

\* Mutant of NewTarget: the options are applied from the last to the first.
NewTargetFirstWins(name, check, opts) ==
    ApplyOptionsFirstWins([Name |-> name, Importance |-> TargetImportanceHigh,
                           Icon |-> "", Group |-> "", check |-> check], opts)

\* The target WithTarget builds.
NewTarget(name, check, opts) ==
    ApplyOptions([Name |-> name, Importance |-> TargetImportanceHigh,
                  Icon |-> "", Group |-> "", check |-> check], opts)

\* Inputs of WithTarget.
Names == {"db", "cache"}

OptionLists ==
    { <<>>,
      <<WithImportance(TargetImportanceLow)>>,
      <<WithImportance(TargetImportanceLow), WithIcon("fa-db"), WithGroup("core"),
        WithImportance(TargetImportanceHigh)>> }

\* The zero value of HealthCheckResult (a slot of make([]HealthCheckResult, n)).
ZeroResult ==
    [Target |-> [Name |-> "", Importance |-> "", Icon |-> "", Group |-> "",
                 check |-> NoProbe],
     Status |-> "", ErrorMessage |-> <<>>, err |-> Nil]

\* Mutant of NewResult: the message is left out of a failed result.
NewResultNoMessage(target, err) ==
    [Target |-> target,
     Status |-> IF err # Nil THEN HealthTargetStatusFail ELSE HealthTargetStatusOk,
     ErrorMessage |-> <<>>, err |-> err]

\* The result the worker of `target` builds from its probe's return value.
NewResult(target, err) ==
    IF err # Nil
    THEN [Target |-> target, Status |-> HealthTargetStatusFail,
          ErrorMessage |-> ErrorText(err), err |-> err]
    ELSE [Target |-> target, Status |-> HealthTargetStatusOk,
          ErrorMessage |-> <<>>, err |-> Nil]

\* Mutant of StoreResult: the result is appended, taking the first free slot.
StoreResultAppend(rs, index, r) ==
    LET free == {k \in 1..Len(rs) : rs[k] = ZeroResult}
        first == CHOOSE k \in free : \A j \in free : k <= j
    IN [rs EXCEPT ![first] = r]

\* results[index] = r
StoreResult(rs, index, r) == [rs EXCEPT ![index] = r]

\* Mutant of WorkerReturn: the probe's failure is returned to the errgroup.
WorkerReturnErr(err) == err

\* What the worker closure returns to the errgroup after its probe returned err.
WorkerReturn(err) == Nil

\* Mutant of ProbeCtx: the probe gets a context that is never done.
ProbeCtxBackground == Nil

\* Err() of the context Check passes to every probe: the errgroup's context.
ProbeCtx == gctxErr

\* Mutant of WaitDone: the wait also ends when the caller's context is done.
WaitDoneOrCancelled == callerErr # Nil \/ \A k \in 1..Len(wpc) : wpc[k] = "done"

\* g.Wait() can return: every worker started with g.Go has returned.
WaitDone == \A k \in 1..Len(wpc) : wpc[k] = "done"

\* Mutant of CheckReturn: a done context is reported as an error of Check.
CheckReturnCtxErr(gerr, rs) ==
    IF gerr # Nil \/ callerErr # Nil
    THEN [results |-> <<>>, err |-> Wrap("waiting errgroup: ", callerErr)]
    ELSE [results |-> rs, err |-> Nil]

\* What Check returns once g.Wait() returned gerr.
CheckReturn(gerr, rs) ==
    IF gerr # Nil
    THEN [results |-> <<>>, err |-> Wrap("waiting errgroup: ", gerr)]
    ELSE [results |-> rs, err |-> Nil]

\* Mutant of NoDepsPresent: only no_deps=true skips the probes.
NoDepsTrue(q) == \E k \in 1..Len(q) : q[k].key = "no_deps" /\ q[k].value = "true"

\* _, noDeps := r.URL.Query()["no_deps"]; a query is a sequence of [key, value].
NoDepsPresent(q) == \E k \in 1..Len(q) : q[k].key = "no_deps"

Queries ==
    { <<>>,
      <<[key |-> "no_deps", value |-> ""]>>,
      <<[key |-> "no_deps", value |-> "true"]>>,
      <<[key |-> "no_deps", value |-> "false"]>> }

\* Mutant of HandlerStatus: the importance of the failing target is ignored.
HandlerStatusAnyFail(rs) ==
    IF \E k \in 1..Len(rs) : rs[k].Status # HealthTargetStatusOk \/ rs[k].err # Nil
    THEN 500
    ELSE 200

\* The handler's loop over the results of Check.
HandlerStatus(rs) ==
    IF \E k \in 1..Len(rs) :
          /\ rs[k].Target.Importance = TargetImportanceHigh
          /\ (rs[k].Status # HealthTargetStatusOk \/ rs[k].err # Nil)
    THEN 500
    ELSE 200

\* json.Encode of the results: the exported, tagged fields only.
JSONBody(rs) ==
    [k \in 1..Len(rs) |->
        [name |-> rs[k].Target.Name, importance |-> rs[k].Target.Importance,
         icon |-> rs[k].Target.Icon, group |-> rs[k].Target.Group,
         status |-> rs[k].Status, error |-> rs[k].ErrorMessage]]

----------------------------------------------------------------------------
(* golang.org/x/sync/errgroup, as used by Check and by the combinators:    *)
(* the first non-nil error a worker returns is kept and cancels the        *)
(* derived context; Wait returns it once every worker has returned, and    *)
(* cancels the derived context.                                            *)

\* Err() of a derived context after cancel(): the first cancellation stays.
CancelCtx(ctxErr, reason) == IF ctxErr = Nil THEN reason ELSE ctxErr

EgErrAfter(ret) == IF ret # Nil /\ gErr = Nil THEN ret ELSE gErr

EgCtxAfter(ret) == IF ret # Nil /\ gErr = Nil THEN CancelCtx(gctxErr, Canceled) ELSE gctxErr

----------------------------------------------------------------------------
Init ==
    /\ targets = <<>>
    /\ hpc = "idle"
    /\ query = <<>>
    /\ respCode = 0
    /\ respBody = <<>>
    /\ cpc = "none"
    /\ ci = 0
    /\ results = <<>>
    /\ ckRet = [results |-> <<>>, err |-> Nil]
    /\ finished = <<>>
    /\ callerErr = Nil
    /\ gctxErr = Nil
    /\ gErr = Nil
    /\ wpc = <<>>
    /\ comb = [kind |-> "none", checks |-> <<>>, threshold |-> 0]
    /\ kpc = "idle"
    /\ subErr = <<>>
    /\ chan = <<>>
    /\ kRet = Nil
    /\ wr = [kind |-> "none", attempts |-> 0, delay |-> 0, script |-> <<>>]
    /\ rpc = "idle"
    /\ ri = 0
    /\ rInv = <<>>
    /\ rLastErr = Nil
    /\ rRet = Nil
    /\ tctxErr = Nil
    /\ tFired = FALSE
    /\ rWaitCancel = -1
    /\ now = 1
    /\ world = [err |-> Nil, containers |-> <<>>]
    /\ dc = [labels |-> <<>>, interval |-> 0, timeout |-> 0]
    /\ dcPc = "none"
    /\ newErr = Nil
    /\ loopPc = "none"
    /\ dcLastErr = Nil
    /\ dcLastChecked = 0
    /\ dcNextTick = 0
    /\ dcTick = FALSE
    /\ dcCtxErr = Nil
    /\ dcClosePc = "none"
    /\ dcRet = [called |-> FALSE, ctxErr |-> Nil, lastErr |-> Nil, since |-> 0, err |-> Nil]
    /\ pc = [staleAfter |-> 0]
    /\ pcPc = "none"
    /\ prodPc = "none"
    /\ consPc = "none"
    /\ store = [last |-> 0]
    /\ msgs = <<>>
    /\ pcNextTick = 0
    /\ pcTick = FALSE
    /\ pcCtxErr = Nil
    /\ pcClosePc = "none"
    /\ pcRet = [calls |-> 0, ctxErr |-> Nil, last |-> 0, err |-> Nil]
    /\ healthResults = <<>>
    /\ data = [served |-> FALSE, HealthResults |-> <<>>, HealthGroups |-> <<>>]
    /\ psPc = [t \in {"w1", "w2", "r1"} |-> "idle"]
    /\ psTs = [t \in {"w1", "w2"} |-> 0]
    /\ lastDone = 0
    /\ readRet = [called |-> FALSE, last |-> 0, err |-> Nil]
    /\ rf = [c \in {"new", "loop"} |-> [pc |-> "idle", err |-> Nil, id |-> 0]]
    /\ rfCount = 0
    /\ dcFrom = [err |-> 0, checked |-> 0]
    /\ dcTasks = 0
    /\ ck = [k \in {"c1", "c2"} |->
               [pc |-> "idle", lastErr |-> Nil, lastChecked |-> 0,
                errFrom |-> 0, checkedFrom |-> 0]]

\* c.WithTarget(name, check, opts...); targets are registered while no Check is
\* in flight, the probe's id being the name it is registered under.
WithTarget(name, kind, opts) ==
    /\ UNCHANGED <<cbVars, xVars>>
    /\ hpc # "checking"
    /\ Len(targets) < MaxTargets
    /\ targets' = Append(targets, NewTarget(name, [kind |-> kind, id |-> name], opts))
    /\ UNCHANGED <<hpc, query, respCode, respBody, cpc, ci, results, ckRet, finished>>
    /\ UNCHANGED egVars

\* The /health handler up to the first g.Go of Check (no_deps: the whole handler).
HandlerServe(q) ==
    /\ UNCHANGED <<cbVars, xVars>>
    /\ hpc \in {"idle", "responded"}
    /\ query' = q
    /\ ckRet' = [results |-> <<>>, err |-> Nil]
    /\ finished' = <<>>
    /\ callerErr' = Nil
    /\ gctxErr' = Nil
    /\ gErr' = Nil
    /\ ci' = 0
    /\ respBody' = <<>>
    /\ IF NoDepsPresent(q)
       THEN /\ hpc' = "responded"
            /\ respCode' = 200
            /\ cpc' = "none"
            /\ results' = <<>>
            /\ wpc' = <<>>
       ELSE /\ hpc' = "checking"
            /\ respCode' = 0
            /\ cpc' = IF Len(targets) = 0 THEN "wait" ELSE "launch"
            /\ results' = [k \in 1..Len(targets) |-> ZeroResult]
            /\ wpc' = [k \in 1..Len(targets) |-> "none"]
    /\ UNCHANGED targets

\* One iteration of Check's loop: g.Go starts the worker of target i.
CheckGo ==
    /\ UNCHANGED <<cbVars, xVars>>
    /\ cpc = "launch"
    /\ ci' = ci + 1
    /\ wpc' = [wpc EXCEPT ![ci + 1] = "running"]
    /\ cpc' = IF ci + 1 = Len(targets) THEN "wait" ELSE "launch"
    /\ UNCHANGED <<targets, hpc, query, respCode, respBody, results, ckRet, finished>>
    /\ UNCHANGED <<callerErr, gctxErr, gErr>>

\* The worker of target i: its probe returns, it stores the result and returns.
Worker(i) ==
    /\ UNCHANGED <<cbVars, xVars>>
    /\ cpc \in {"launch", "wait"}
    /\ wpc[i] = "running"
    /\ ProbeCanReturn(targets[i].check, ProbeCtx)
    /\ LET err == ProbeReturn(targets[i].check, ProbeCtx)
           ret == WorkerReturn(err)
       IN /\ results' = StoreResult(results, i, NewResult(targets[i], err))
          /\ gErr' = EgErrAfter(ret)
          /\ gctxErr' = EgCtxAfter(ret)
    /\ wpc' = [wpc EXCEPT ![i] = "done"]
    /\ finished' = Append(finished, i)
    /\ UNCHANGED <<targets, hpc, query, respCode, respBody, cpc, ci, ckRet, callerErr>>

\* g.Wait() returns and Check returns.
CheckWait ==
    /\ UNCHANGED <<cbVars, xVars>>
    /\ cpc = "wait"
    /\ WaitDone
    /\ gctxErr' = CancelCtx(gctxErr, Canceled)
    /\ ckRet' = CheckReturn(gErr, results)
    /\ cpc' = "returned"
    /\ UNCHANGED <<targets, hpc, query, respCode, respBody, ci, results, finished>>
    /\ UNCHANGED <<callerErr, gErr, wpc>>

\* The handler after Check returned.
HandlerRespond ==
    /\ UNCHANGED <<cbVars, xVars>>
    /\ hpc = "checking"
    /\ cpc = "returned"
    /\ IF ckRet.err # Nil
       THEN /\ respCode' = 500
            /\ respBody' = ErrorText(ckRet.err)
       ELSE /\ respCode' = HandlerStatus(ckRet.results)
            /\ respBody' = JSONBody(ckRet.results)
    /\ hpc' = "responded"
    /\ UNCHANGED <<targets, query, cpc, ci, results, ckRet, finished>>
    /\ UNCHANGED egVars

\* The caller's context is cancelled, or its deadline elapses, during Check.
\* Before the first g.Go this is a context that was already done at the call.
CtxDone(reason) ==
    /\ UNCHANGED <<cbVars, xVars>>
    /\ cpc \in {"launch", "wait"}
    /\ callerErr = Nil
    /\ callerErr' = reason
    /\ gctxErr' = CancelCtx(gctxErr, reason)
    /\ UNCHANGED hcVars
    /\ UNCHANGED <<gErr, wpc>>

Next ==
    \/ \E name \in Names, kind \in ProbeKinds, opts \in OptionLists :
          WithTarget(name, kind, opts)
    \/ \E q \in Queries : HandlerServe(q)
    \/ CheckGo
    \/ \E i \in 1..Len(wpc) : Worker(i)
    \/ CheckWait
    \/ HandlerRespond
    \/ \E reason \in CtxErrors : CtxDone(reason)

Spec == Init /\ [][Next]_vars

----------------------------------------------------------------------------
(* Package check: the combinators All, Any and WithThreshold.  One         *)
(* combinator is run at a time, over sub-probes of the kinds ok, fail and  *)
(* block; sub-probe number k has the id "k".                               *)

SubKinds == {"ok", "fail", "block"}

RECURSIVE CheckLists(_)
CheckLists(n) ==
    IF n = 0 THEN { <<>> }
    ELSE LET shorter == CheckLists(n - 1)
         IN shorter \cup
            { Append(cs, [kind |-> kd, id |-> ToString(Len(cs) + 1)]) :
                 cs \in {c \in shorter : Len(c) = n - 1}, kd \in SubKinds }

\* Mutant of SubCtx: the sub-probes get the caller's context.
SubCtxCaller == callerErr

\* Err() of the context the workers pass to their sub-probes: the errgroup's.
SubCtx == gctxErr

\* Mutant of AllWorkerReturn: the sub-probe's failure is not reported.
AllWorkerReturnNil(err) == Nil

\* What a worker of All returns to the errgroup: its sub-probe's error.
AllWorkerReturn(err) == err

\* Mutant of ChanWorkerReturn: a worker reports an error after its send too.
ChanWorkerReturnErr(branch) == IF branch = "done" THEN gctxErr ELSE Canceled

\* What a worker of Any / WithThreshold returns to the errgroup after its
\* select: nil after the send, ctx.Err() after <-ctx.Done().
ChanWorkerReturn(branch) == IF branch = "done" THEN gctxErr ELSE Nil

\* Mutant of AnyLoop: the first failure is kept, not the last.
AnyLoopFirstErr(ch, lastErr) ==
    [success |-> \E j \in 1..Len(ch) : ch[j] = Nil,
     lastErr |-> IF ch = <<>> THEN lastErr ELSE Head(ch)]

\* The loop of Any over the closed channel: stops at the first success.
RECURSIVE AnyLoop(_, _)
AnyLoop(ch, lastErr) ==
    IF ch = <<>> THEN [success |-> FALSE, lastErr |-> lastErr]
    ELSE IF Head(ch) = Nil THEN [success |-> TRUE, lastErr |-> lastErr]
    ELSE AnyLoop(Tail(ch), Head(ch))

\* Mutant of AnyVerdict: Any fails as soon as some sub-probe failed.
AnyVerdictLastErr(ch) ==
    LET r == AnyLoop(ch, Nil)
    IN IF ~r.success \/ r.lastErr # Nil
       THEN Wrap("all checks failed: ", r.lastErr)
       ELSE Nil

\* What Any returns after g.Wait() returned nil.
AnyVerdict(ch) ==
    LET r == AnyLoop(ch, Nil)
    IN IF ~r.success THEN Wrap("all checks failed: ", r.lastErr) ELSE Nil

\* The loop of WithThreshold over the closed channel.
RECURSIVE ThresholdLoop(_, _, _)
ThresholdLoop(ch, successCount, lastErr) ==
    IF ch = <<>> THEN [successCount |-> successCount, lastErr |-> lastErr]
    ELSE IF Head(ch) = Nil THEN ThresholdLoop(Tail(ch), successCount + 1, lastErr)
    ELSE ThresholdLoop(Tail(ch), successCount, Head(ch))

\* Mutant of ThresholdVerdict: the threshold itself is not enough.
ThresholdVerdictStrict(threshold, ch) ==
    LET r == ThresholdLoop(ch, 0, Nil)
    IN IF r.successCount <= threshold
       THEN <<"insufficient successful checks: got ", ToString(r.successCount),
              ", want ", ToString(threshold)>> \o Wrap(": ", r.lastErr)
       ELSE Nil

\* What WithThreshold returns after g.Wait() returned nil.
ThresholdVerdict(threshold, ch) ==
    LET r == ThresholdLoop(ch, 0, Nil)
    IN IF r.successCount < threshold
       THEN <<"insufficient successful checks: got ", ToString(r.successCount),
              ", want ", ToString(threshold)>> \o Wrap(": ", r.lastErr)
       ELSE Nil

\* The non-nil errors among es, joined in order.
RECURSIVE JoinErrors(_)
JoinErrors(es) ==
    IF es = <<>> THEN <<>>
    ELSE Head(es) \o JoinErrors(Tail(es))

\* Mutant of CombReturn: the failures of all sub-probes are aggregated.
CombReturnJoin(gerr) ==
    IF gerr # Nil THEN Wrap("waiting errgroup: ", JoinErrors(subErr))
    ELSE CASE comb.kind = "All" -> Nil
           [] comb.kind = "Any" -> AnyVerdict(chan)
           [] OTHER -> ThresholdVerdict(comb.threshold, chan)

\* What the combinator returns once g.Wait() returned gerr.
CombReturn(gerr) ==
    IF gerr # Nil THEN Wrap("waiting errgroup: ", gerr)
    ELSE CASE comb.kind = "All" -> Nil
           [] comb.kind = "Any" -> AnyVerdict(chan)
           [] OTHER -> ThresholdVerdict(comb.threshold, chan)

\* The Check of a combinator up to its first g.Go.
CombBegin(kind, threshold, checks) ==
    /\ kpc \in {"idle", "returned"}
    /\ comb' = [kind |-> kind, checks |-> checks, threshold |-> threshold]
    /\ kpc' = IF checks = <<>> THEN "wait" ELSE "launch"
    /\ wpc' = [k \in 1..Len(checks) |-> "none"]
    /\ subErr' = [k \in 1..Len(checks) |-> Nil]
    /\ chan' = <<>>
    /\ kRet' = Nil
    /\ callerErr' = Nil
    /\ gctxErr' = Nil
    /\ gErr' = Nil
    /\ UNCHANGED <<hcVars, xVars>>

\* All(checks...).Check(ctx)
AllCheck(checks) == CombBegin("All", 0, checks)

\* Any(checks...).Check(ctx)
AnyCheck(checks) == CombBegin("Any", 0, checks)

\* WithThreshold(threshold, checks...).Check(ctx)
ThresholdCheck(threshold, checks) == CombBegin("WithThreshold", threshold, checks)

\* One iteration of the combinator's loop: g.Go starts the next worker.
CombGo ==
    /\ kpc = "launch"
    /\ LET k == 1 + Cardinality({j \in 1..Len(wpc) : wpc[j] # "none"})
       IN /\ wpc' = [wpc EXCEPT ![k] = "running"]
          /\ kpc' = IF k = Len(comb.checks) THEN "wait" ELSE "launch"
    /\ UNCHANGED <<comb, subErr, chan, kRet, callerErr, gctxErr, gErr>>
    /\ UNCHANGED <<hcVars, xVars>>

\* A worker of All: its sub-probe returns and it returns the error.
AllWorker(i) ==
    /\ kpc \in {"launch", "wait"}
    /\ comb.kind = "All"
    /\ wpc[i] = "running"
    /\ ProbeCanReturn(comb.checks[i], SubCtx)
    /\ LET err == ProbeReturn(comb.checks[i], SubCtx)
           ret == AllWorkerReturn(err)
       IN /\ subErr' = [subErr EXCEPT ![i] = err]
          /\ gErr' = EgErrAfter(ret)
          /\ gctxErr' = EgCtxAfter(ret)
    /\ wpc' = [wpc EXCEPT ![i] = "done"]
    /\ UNCHANGED <<comb, kpc, chan, kRet, callerErr>>
    /\ UNCHANGED <<hcVars, xVars>>

\* Mutant of ChanCap: the results channel is unbuffered.
ChanCapUnbuffered(checks) == 0

\* make(chan error, len(checks))
ChanCap(checks) == Len(checks)

\* A worker of Any / WithThreshold: its sub-probe returns, then the select
\* sends the error (the channel has room for every worker) or, the context
\* being done, may take <-ctx.Done() instead.
ChanWorker(i, branch) ==
    /\ kpc \in {"launch", "wait"}
    /\ comb.kind \in {"Any", "WithThreshold"}
    /\ wpc[i] = "running"
    /\ ProbeCanReturn(comb.checks[i], SubCtx)
    /\ IF branch = "done" THEN gctxErr # Nil ELSE Len(chan) < ChanCap(comb.checks)
    /\ LET err == ProbeReturn(comb.checks[i], SubCtx)
           ret == ChanWorkerReturn(branch)
       IN /\ subErr' = [subErr EXCEPT ![i] = err]
          /\ chan' = IF branch = "send" THEN Append(chan, err) ELSE chan
          /\ gErr' = EgErrAfter(ret)
          /\ gctxErr' = EgCtxAfter(ret)
    /\ wpc' = [wpc EXCEPT ![i] = "done"]
    /\ UNCHANGED <<comb, kpc, kRet, callerErr>>
    /\ UNCHANGED <<hcVars, xVars>>

\* g.Wait() returns and the combinator's Check returns.
CombWait ==
    /\ kpc = "wait"
    /\ WaitDone
    /\ gctxErr' = CancelCtx(gctxErr, Canceled)
    /\ kRet' = CombReturn(gErr)
    /\ kpc' = "returned"
    /\ UNCHANGED <<comb, subErr, chan, callerErr, gErr, wpc>>
    /\ UNCHANGED <<hcVars, xVars>>

\* The caller's context is cancelled, or its deadline elapses, during the run.
CombCtxDone(reason) ==
    /\ kpc \in {"launch", "wait"}
    /\ callerErr = Nil
    /\ callerErr' = reason
    /\ gctxErr' = CancelCtx(gctxErr, reason)
    /\ UNCHANGED <<gErr, wpc>>
    /\ UNCHANGED cbVars
    /\ UNCHANGED <<hcVars, xVars>>

NextComb ==
    \/ \E checks \in CheckLists(MaxChecks) : AllCheck(checks)
    \/ \E checks \in CheckLists(MaxChecks) : AnyCheck(checks)
    \/ \E checks \in CheckLists(MaxChecks) :
          \E threshold \in 0..(Len(checks) + 1) : ThresholdCheck(threshold, checks)
    \/ CombGo
    \/ \E i \in 1..Len(wpc) : AllWorker(i)
    \/ \E i \in 1..Len(wpc), branch \in {"send", "done"} : ChanWorker(i, branch)
    \/ CombWait
    \/ \E reason \in CtxErrors : CombCtxDone(reason)

SpecComb == Init /\ [][NextComb]_vars

----------------------------------------------------------------------------
(* Properties of HealthChecker, checked under Spec *)

\* Check is between its first g.Go and the return of g.Wait().
InFlight == cpc \in {"launch", "wait"}

\* Check has returned and the handler has not responded yet (no registration since).
Returned == hpc = "checking" /\ cpc = "returned"

Kind(k) == targets[k].check.kind

\* The outcome the probe of target k produces on its own.
OwnOutcome(k, r) ==
    CASE Kind(k) = "ok" ->
            r.Status = "ok" /\ r.err = <<>> /\ r.ErrorMessage = <<>>
      [] Kind(k) = "fail" ->
            /\ r.Status = "fail"
            /\ r.err = <<"probe error: ", targets[k].Name>>
            /\ r.ErrorMessage = r.err
      [] Kind(k) = "block" ->
            /\ r.Status = "fail"
            /\ r.err \in {<<"context canceled">>, <<"context deadline exceeded">>}
            /\ r.ErrorMessage = r.err
      [] OTHER -> FALSE

\* C1: whatever the registrations and the order in which the workers finish,
\* Check returns one result per registered target, the i-th result carrying the
\* i-th registered target (name, importance, icon, group) and the outcome of
\* that target's own probe.
C1_ResultsInRegistrationOrder ==
    Returned =>
        /\ Len(ckRet.results) = Len(targets)
        /\ \A k \in 1..Len(targets) :
              /\ ckRet.results[k].Target.Name = targets[k].Name
              /\ ckRet.results[k].Target.Importance = targets[k].Importance
              /\ ckRet.results[k].Target.Icon = targets[k].Icon
              /\ ckRet.results[k].Target.Group = targets[k].Group
              /\ OwnOutcome(k, ckRet.results[k])

\* Witness of C1: two different targets whose workers finished in the reverse
\* of the registration order.
C1_Witness ==
    /\ Returned
    /\ finished = <<2, 1>>
    /\ targets[1].Name # targets[2].Name
    /\ Kind(1) # Kind(2)

\* C2: while Check is in flight the shared context is done only if the
\* caller's context is done (with the caller's reason), no worker reports an
\* error to the errgroup, and a probe waiting for the context fails only with
\* the caller's reason: a sibling's failure never cancels it.
C2_FailureNeverCancelsSiblings ==
    /\ InFlight /\ gctxErr # <<>> => callerErr = gctxErr
    /\ gErr = <<>>
    /\ \A k \in 1..Len(wpc) :
          (cpc # "none" /\ wpc[k] = "done" /\ Kind(k) = "block")
              => (callerErr # <<>> /\ results[k].err = callerErr)
    /\ Returned =>
          \A k \in 1..Len(targets) : wpc[k] = "done" /\ results[k] # ZeroResult

\* Witness of C2: a failing probe has returned while a sibling waiting for the
\* context is still running with a live context.
C2_Witness ==
    /\ InFlight
    /\ gctxErr = <<>>
    /\ \E j, k \in 1..Len(wpc) :
          /\ Kind(j) = "fail" /\ wpc[j] = "done"
          /\ Kind(k) = "block" /\ wpc[k] = "running"

\* C3: a request without no_deps is answered 500 exactly when a target of
\* importance High has a Fail outcome in that evaluation, and 200 otherwise.
C3_StatusIffHighFails ==
    (hpc = "responded" /\ cpc = "returned") =>
        /\ respCode \in {200, 500}
        /\ respCode = 500 <=>
              \E k \in 1..Len(ckRet.results) :
                 /\ ckRet.results[k].Target.Importance = "high"
                 /\ ckRet.results[k].Status = "fail"

\* Witness of C3: 200 although a Low target failed, next to a High target that
\* succeeded.
C3_Witness ==
    /\ hpc = "responded" /\ cpc = "returned"
    /\ respCode = 200
    /\ \E j, k \in 1..Len(ckRet.results) :
          /\ ckRet.results[j].Target.Importance = "low"
          /\ ckRet.results[j].Status = "fail"
          /\ ckRet.results[k].Target.Importance = "high"
          /\ ckRet.results[k].Status = "ok"

\* C4: a request carrying no_deps, with any value, is answered 200 at once and
\* no probe is invoked for it.
C4_NoDepsInvokesNoProbe ==
    (\E k \in 1..Len(query) : query[k].key = "no_deps") =>
        /\ hpc = "responded"
        /\ respCode = 200
        /\ cpc = "none"
        /\ wpc = <<>>
        /\ finished = <<>>

\* Witness of C4: no_deps with a value other than true, answered while a probe
\* that never returns and a probe that fails are registered.
C4_Witness ==
    /\ hpc = "responded"
    /\ respCode = 200
    /\ Len(query) = 1 /\ query[1].key = "no_deps" /\ query[1].value = "false"
    /\ \E j, k \in 1..Len(targets) : Kind(j) = "hang" /\ Kind(k) = "fail"

\* C5: Check returns a nil error and the full result list, whatever the mix of
\* succeeding, failing and cancelled probes: every slot is filled, and a probe
\* failure is that target's Fail outcome.
C5_CheckNeverErrs ==
    cpc = "returned" =>
        /\ ckRet.err = <<>>
        /\ Len(ckRet.results) = Len(wpc)
        /\ \A k \in 1..Len(wpc) :
              /\ ckRet.results[k].Status \in {"ok", "fail"}
              /\ ckRet.results[k].Status = "fail" <=> ckRet.results[k].err # <<>>
              /\ Kind(k) \in {"fail", "block"} => ckRet.results[k].Status = "fail"

\* Witness of C5: Check returned with a failed probe and a cancelled probe.
C5_Witness ==
    /\ Returned
    /\ callerErr # <<>>
    /\ \E j, k \in 1..Len(targets) : Kind(j) = "fail" /\ Kind(k) = "block"

\* C6: once the deadline of the evaluation context has elapsed, a probe
\* blocked on the context can return, its target gets a Fail outcome whose
\* message is the context's error, and no other target fails because of it:
\* a succeeding probe is still Ok and only a failing or blocked probe is Fail.
C6_DeadlineFailsOnlyBlockedProbe ==
    callerErr = <<"context deadline exceeded">> =>
        /\ \A k \in 1..Len(wpc) :
              (InFlight /\ wpc[k] = "running" /\ Kind(k) = "block")
                  => ENABLED Worker(k)
        /\ Returned =>
              \A k \in 1..Len(targets) :
                 /\ Kind(k) = "block" =>
                       /\ ckRet.results[k].Status = "fail"
                       /\ ckRet.results[k].ErrorMessage = <<"context deadline exceeded">>
                 /\ Kind(k) = "ok" => ckRet.results[k].Status = "ok"
                 /\ ckRet.results[k].Status = "fail" => Kind(k) \in {"fail", "block"}

\* Witness of C6: Check returned after the deadline elapsed, with a blocked
\* probe next to a succeeding one.
C6_Witness ==
    /\ Returned
    /\ callerErr = <<"context deadline exceeded">>
    /\ \E j, k \in 1..Len(targets) :
          /\ Kind(j) = "block" /\ ckRet.results[j].Status = "fail"
          /\ Kind(k) = "ok" /\ ckRet.results[k].Status = "ok"

\* A step of Check itself or of one of its workers.
CheckStep == CheckGo \/ CheckWait \/ \E k \in 1..Len(wpc) : Worker(k)

\* C7 as claimed: once the caller's context is cancelled, Check goes on to
\* return even if some probe has not returned, so a cancelled Check that has
\* not returned can always take a step.
C7_CancelledCheckProceeds ==
    (InFlight /\ callerErr # <<>>) => ENABLED CheckStep

\* C7 as amended: Check returns only after every worker has returned, with the
\* caller's context cancelled or not; the wait cannot end while a worker runs;
\* and a cancelled Check can always take a step when no running probe is one
\* that never returns.
C7_ReturnsOnlyAfterAllWorkers ==
    /\ cpc = "returned" => \A k \in 1..Len(wpc) : wpc[k] = "done"
    /\ (cpc = "wait" /\ \E k \in 1..Len(wpc) : wpc[k] # "done") => ~ENABLED CheckWait
    /\ (InFlight /\ callerErr # <<>>
          /\ \A k \in 1..Len(wpc) : wpc[k] = "running" => Kind(k) # "hang")
          => ENABLED CheckStep

\* Witness of C7: the caller's context is cancelled and Check still waits for
\* a probe that has not returned, every other worker being done.
C7_Witness ==
    /\ cpc = "wait"
    /\ callerErr # <<>>
    /\ Len(wpc) = 2
    /\ \E j, k \in 1..Len(wpc) :
          /\ wpc[j] = "done" /\ Kind(j) = "block"
          /\ wpc[k] = "running" /\ Kind(k) = "hang"

----------------------------------------------------------------------------
(* Properties of the combinators, checked under SpecComb *)

CombReturned(kind) == kpc = "returned" /\ comb.kind = kind

SubKind(k) == comb.checks[k].kind

\* The sub-probes that succeeded: their Check returned nil.
Succeeded == {k \in 1..Len(comb.checks) : subErr[k] = <<>>}

\* C8: over sub-probes that always succeed or always fail, All succeeds
\* exactly when every sub-probe succeeds; with no sub-probe it succeeds.
C8_AllIffEverySucceeds ==
    (CombReturned("All") /\ \A k \in 1..Len(comb.checks) : SubKind(k) \in {"ok", "fail"})
        => /\ kRet = <<>> <=> \A k \in 1..Len(comb.checks) : SubKind(k) = "ok"
           /\ comb.checks = <<>> => kRet = <<>>
           /\ kRet # <<>> =>
                 \E k \in 1..Len(comb.checks) :
                    kRet = <<"waiting errgroup: ", "probe error: ", ToString(k)>>

\* Witness of C8: All returned a failure over one succeeding and one failing
\* sub-probe.
C8_Witness ==
    /\ CombReturned("All")
    /\ Len(comb.checks) = 2
    /\ SubKind(1) = "ok" /\ SubKind(2) = "fail"
    /\ kRet # <<>>

\* C9: with a caller context that is not cancelled, Any fails exactly when
\* every sub-probe failed, and succeeds when one succeeded while others
\* failed; with no sub-probe it fails.
C9_AnyFailsIffEveryFails ==
    (CombReturned("Any") /\ callerErr = <<>>)
        => /\ kRet # <<>> <=> \A k \in 1..Len(comb.checks) : subErr[k] # <<>>
           /\ kRet # <<>> <=> \A k \in 1..Len(comb.checks) : SubKind(k) = "fail"
           /\ comb.checks = <<>> => kRet = <<"all checks failed: ", "%!w(<nil>)">>

\* Witness of C9: Any succeeded although the sub-probe that finished first
\* failed.
C9_Witness ==
    /\ CombReturned("Any")
    /\ callerErr = <<>>
    /\ kRet = <<>>
    /\ Len(chan) = 2 /\ chan[1] # <<>> /\ chan[2] = <<>>

\* The last failure in the channel, in the order the results were sent.
LastObserved(e) ==
    \E j \in 1..Len(chan) :
       /\ chan[j] = e
       /\ e # <<>>
       /\ \A l \in (j + 1)..Len(chan) : chan[l] = <<>>

\* What C10 claims of a returned WithThreshold with 0 <= threshold <= n.
ThresholdAsClaimed ==
    /\ kRet = <<>> <=> Cardinality(Succeeded) >= comb.threshold
    /\ kRet # <<>> =>
          \E e \in {subErr[k] : k \in 1..Len(comb.checks)} :
             /\ LastObserved(e)
             /\ kRet = <<"insufficient successful checks: got ",
                         ToString(Cardinality(Succeeded)),
                         ", want ", ToString(comb.threshold), ": ">> \o e

\* C10 as claimed: for every list of n sub-probes and every threshold in
\* 0..n, WithThreshold succeeds exactly when at least threshold sub-probes
\* succeeded, and its failure reports the count, the threshold and the last
\* observed sub-probe failure.
C10_ThresholdIffCount ==
    (CombReturned("WithThreshold") /\ comb.threshold <= Len(comb.checks))
        => ThresholdAsClaimed

\* C10 as amended: the same when the caller's context is not cancelled during
\* the call; when it is, WithThreshold either behaves as claimed or fails with
\* the context's error, whatever the count.
C10_ThresholdIffCountUncancelled ==
    (CombReturned("WithThreshold") /\ comb.threshold <= Len(comb.checks))
        => /\ callerErr = <<>> => ThresholdAsClaimed
           /\ callerErr # <<>> =>
                 \/ ThresholdAsClaimed
                 \/ kRet = <<"waiting errgroup: ">> \o callerErr

\* Witness of C10: with a live caller context, WithThreshold failed one
\* success short of the threshold and reports the failure observed last.
C10_Witness ==
    /\ CombReturned("WithThreshold")
    /\ callerErr = <<>>
    /\ comb.threshold = 2
    /\ Len(chan) = 2 /\ chan[1] = <<>> /\ chan[2] # <<>>
    /\ kRet = <<"insufficient successful checks: got ", "1", ", want ", "2", ": ">>
                 \o chan[2]

----------------------------------------------------------------------------
(* Package check: the wrappers WithRetries and WithTimeout.  One wrapper   *)
(* is run at a time.  The wrapped probe follows a script: its j-th         *)
(* invocation behaves as a probe of kind script[j] whose id is "j".        *)

MaxAttempts == 2

RECURSIVE Scripts(_)
Scripts(n) ==
    IF n = 0 THEN { <<>> }
    ELSE { Append(sc, kd) : sc \in Scripts(n - 1), kd \in SubKinds }

\* Abstract delays: zero, or positive.
Delays == {0, 1}

\* The probe as it behaves at its j-th invocation.
Invocation(j) == [kind |-> wr.script[j], id |-> ToString(j)]

wrFrame == <<hcVars, gctxErr, gErr, wpc, cbVars, bgVars, pgVars, psVars, muVars>>

\* Mutant of RetryLoopCond: one attempt too many.
RetryLoopCondInclusive(i, attempts) == i <= attempts

\* The loop condition of WithRetries.
RetryLoopCond(i, attempts) == i < attempts

\* Mutant of RetryAbortReturn: the last probe failure is returned.
RetryAbortReturnLastErr(ctxErr, lastErr) == lastErr

\* What WithRetries returns from the case <-ctx.Done() of its select.
RetryAbortReturn(ctxErr, lastErr) == ctxErr

\* Mutant of TimeoutProbeCtx: the inner probe gets the caller's context.
TimeoutProbeCtxCaller == callerErr

\* Err() of the context WithTimeout passes to the inner probe.
TimeoutProbeCtx == tctxErr

\* WithRetries(check, attempts, delay).Check(ctx) up to the first invocation,
\* or to its return when the loop body is never entered.
RetryCheck(attempts, delay, script) ==
    /\ rpc \in {"idle", "returned"}
    /\ wr' = [kind |-> "WithRetries", attempts |-> attempts, delay |-> delay,
              script |-> script]
    /\ ri' = 0
    /\ rInv' = <<>>
    /\ rLastErr' = Nil
    /\ rRet' = Nil
    /\ callerErr' = Nil
    /\ tctxErr' = Nil
    /\ tFired' = FALSE
    /\ rWaitCancel' = -1
    /\ rpc' = IF RetryLoopCond(0, attempts) THEN "invoke" ELSE "returned"
    /\ UNCHANGED wrFrame

\* The invocation of the wrapped probe returns: success ends WithRetries, a
\* failure is kept and the select is entered.  A case that is ready then is
\* taken (the timer's only when the delay is zero); otherwise the select blocks.
RetryProbeReturn(sel) ==
    /\ wr.kind = "WithRetries"
    /\ rpc = "invoke"
    /\ ProbeCanReturn(Invocation(ri + 1), callerErr)
    /\ LET err == ProbeReturn(Invocation(ri + 1), callerErr)
       IN /\ rInv' = Append(rInv, err)
          /\ IF err = Nil
             THEN /\ sel = "select"
                  /\ rRet' = Nil
                  /\ rpc' = "returned"
                  /\ UNCHANGED rLastErr
             ELSE /\ rLastErr' = err
                  /\ sel \in IF callerErr = Nil THEN {"select"}
                             ELSE IF wr.delay = 0 THEN {"selectDone", "selectTimer"}
                             ELSE {"selectDone"}
                  /\ rpc' = sel
                  /\ UNCHANGED rRet
    /\ UNCHANGED <<wr, ri, callerErr, tctxErr, tFired, rWaitCancel>>
    /\ UNCHANGED wrFrame

\* time.After(delay) fires while the select is blocked.
RetryTimer ==
    /\ rpc = "select"
    /\ rpc' = "selectTimer"
    /\ UNCHANGED <<wr, ri, rInv, rLastErr, rRet, callerErr, tctxErr, tFired, rWaitCancel>>
    /\ UNCHANGED wrFrame

\* The select took the timer's case: i++ and the loop condition.
RetryNext ==
    /\ rpc = "selectTimer"
    /\ ri' = ri + 1
    /\ IF RetryLoopCond(ri + 1, wr.attempts)
       THEN rpc' = "invoke" /\ UNCHANGED rRet
       ELSE rpc' = "returned" /\ rRet' = rLastErr
    /\ UNCHANGED <<wr, rInv, rLastErr, callerErr, tctxErr, tFired, rWaitCancel>>
    /\ UNCHANGED wrFrame

\* The select took the case <-ctx.Done().
RetryAbort ==
    /\ rpc = "selectDone"
    /\ rRet' = RetryAbortReturn(callerErr, rLastErr)
    /\ rpc' = "returned"
    /\ UNCHANGED <<wr, ri, rInv, rLastErr, callerErr, tctxErr, tFired, rWaitCancel>>
    /\ UNCHANGED wrFrame

\* WithTimeout(check, timeout).Check(ctx) up to the call of the inner probe.
TimeoutCheck(kind) ==
    /\ rpc \in {"idle", "returned"}
    /\ wr' = [kind |-> "WithTimeout", attempts |-> 1, delay |-> 0, script |-> <<kind>>]
    /\ ri' = 0
    /\ rInv' = <<>>
    /\ rLastErr' = Nil
    /\ rRet' = Nil
    /\ callerErr' = Nil
    /\ tctxErr' = Nil
    /\ tFired' = FALSE
    /\ rWaitCancel' = -1
    /\ rpc' = "invoke"
    /\ UNCHANGED wrFrame

\* The timeout elapses while the inner probe runs: the derived context is done.
TimeoutTimer ==
    /\ wr.kind = "WithTimeout"
    /\ rpc = "invoke"
    /\ ~tFired
    /\ tFired' = TRUE
    /\ tctxErr' = CancelCtx(tctxErr, DeadlineExceeded)
    /\ UNCHANGED <<wr, rpc, ri, rInv, rLastErr, rRet, callerErr, rWaitCancel>>
    /\ UNCHANGED wrFrame

\* Mutant of DeferCancel: the derived context is not released.
DeferCancelNone(ctxErr) == ctxErr

\* defer cancel() of WithTimeout: Err() of the derived context afterwards.
DeferCancel(ctxErr) == CancelCtx(ctxErr, Canceled)

\* The inner probe returns; WithTimeout returns its result and, deferred,
\* releases the derived context.
TimeoutProbeReturn ==
    /\ wr.kind = "WithTimeout"
    /\ rpc = "invoke"
    /\ ProbeCanReturn(Invocation(1), TimeoutProbeCtx)
    /\ LET err == ProbeReturn(Invocation(1), TimeoutProbeCtx)
       IN /\ rInv' = <<err>>
          /\ rRet' = err
    /\ tctxErr' = DeferCancel(tctxErr)
    /\ rpc' = "returned"
    /\ UNCHANGED <<wr, ri, rLastErr, callerErr, tFired, rWaitCancel>>
    /\ UNCHANGED wrFrame

\* The caller's context is cancelled, or its deadline elapses, during the run;
\* a select blocked on it takes the case <-ctx.Done().
WrapCtxDone(reason) ==
    /\ rpc \in {"invoke", "select", "selectTimer"}
    /\ callerErr = Nil
    /\ callerErr' = reason
    /\ tctxErr' = IF wr.kind = "WithTimeout" THEN CancelCtx(tctxErr, reason) ELSE tctxErr
    /\ rpc' = IF rpc = "select" THEN "selectDone" ELSE rpc
    /\ rWaitCancel' = IF rpc = "select" THEN Len(rInv) ELSE rWaitCancel
    /\ UNCHANGED <<wr, ri, rInv, rLastErr, rRet, tFired>>
    /\ UNCHANGED wrFrame

NextWrap ==
    \/ \E attempts \in (-1)..MaxAttempts, delay \in Delays,
          script \in Scripts(MaxAttempts + 1) : RetryCheck(attempts, delay, script)
    \/ \E sel \in {"select", "selectDone", "selectTimer"} : RetryProbeReturn(sel)
    \/ RetryTimer
    \/ RetryNext
    \/ RetryAbort
    \/ \E kind \in ProbeKinds : TimeoutCheck(kind)
    \/ TimeoutTimer
    \/ TimeoutProbeReturn
    \/ \E reason \in CtxErrors : WrapCtxDone(reason)

SpecWrap == Init /\ [][NextWrap]_vars

----------------------------------------------------------------------------
(* Properties of the wrappers *)

WrapReturned(kind) == wr.kind = kind /\ rpc = "returned"

\* Invocations of the wrapped probe begun so far.
Invoked == Len(rInv) + (IF rpc = "invoke" THEN 1 ELSE 0)

\* C11: with an uncancelled context WithRetries invokes the probe at most
\* `attempts` times, makes no invocation after a successful one and then
\* returns success, and when all `attempts` invocations failed it returns
\* the failure of the last of them.
C11_RetriesBoundedLastFailure ==
    (wr.kind = "WithRetries" /\ callerErr = Nil)
        => /\ Invoked <= (IF wr.attempts > 0 THEN wr.attempts ELSE 0)
           /\ \A j \in 1..Len(rInv) :
                 rInv[j] = Nil => /\ j = Len(rInv)
                                  /\ rpc = "returned"
                                  /\ rRet = Nil
           /\ (rpc = "returned" /\ rInv # <<>> /\ \A j \in 1..Len(rInv) : rInv[j] # Nil)
                 => /\ Len(rInv) = wr.attempts
                    /\ rRet = rInv[wr.attempts]

\* Witness of C11: two attempts, both failed, the second failure returned.
C11_Witness ==
    /\ WrapReturned("WithRetries")
    /\ callerErr = Nil
    /\ wr.attempts = 2
    /\ rInv = <<ProbeErr("1"), ProbeErr("2")>>
    /\ rRet = ProbeErr("2")

\* C12: when the caller's context is cancelled while WithRetries waits the
\* delay after a failed attempt, the probe is not invoked again and the
\* context's error is returned, not the last probe failure.
C12_CancelDuringDelayAborts ==
    (wr.kind = "WithRetries" /\ rWaitCancel >= 0)
        => /\ Len(rInv) = rWaitCancel
           /\ rpc \in {"selectDone", "returned"}
           /\ rpc = "selectDone" => ENABLED RetryAbort
           /\ rpc = "returned" => /\ rRet = callerErr
                                  /\ rRet \in CtxErrors
                                  /\ rRet # rLastErr

\* Witness of C12: cancelled in the wait after the first of two attempts.
C12_Witness ==
    /\ WrapReturned("WithRetries")
    /\ wr.attempts = 2
    /\ rWaitCancel = 1
    /\ rInv = <<ProbeErr("1")>>
    /\ rRet = Canceled

\* The inner probe's own result.
OwnResult(kind) == IF kind = "fail" THEN ProbeErr("1") ELSE Nil

\* C13 as stated: under a live caller context WithTimeout returns the inner
\* probe's own result when the probe returned before the timeout elapsed and
\* a deadline-exceeded failure when it had not, whatever the probe.
C13_TimeoutAsClaimed ==
    (wr.kind = "WithTimeout" /\ callerErr = Nil)
        => /\ rpc = "returned" =>
                 rRet = IF tFired THEN DeadlineExceeded ELSE OwnResult(wr.script[1])
           /\ (rpc = "invoke" /\ tFired) => ENABLED TimeoutProbeReturn

\* C13 amended: WithTimeout returns whatever the inner probe returns, when
\* it returns.  A probe that does not observe its context gives its own
\* result even after the timeout, or never returns; a probe that waits for
\* its context returns once the timeout elapsed, with deadline exceeded
\* under a live caller context.
C13_TimeoutReturnsProbeResult ==
    wr.kind = "WithTimeout"
        => /\ rpc = "returned" =>
                 /\ rInv = <<rRet>>
                 /\ wr.script[1] \in {"ok", "fail"} => rRet = OwnResult(wr.script[1])
                 /\ wr.script[1] = "block" =>
                       /\ rRet \in CtxErrors
                       /\ tFired \/ callerErr # Nil
                       /\ callerErr = Nil => rRet = DeadlineExceeded
           /\ wr.script[1] = "hang" => rpc = "invoke"
           /\ (rpc = "invoke" /\ tFired /\ wr.script[1] = "block")
                 => ENABLED TimeoutProbeReturn

\* Witness of C13: a probe waiting for its context returned deadline
\* exceeded after the timeout, the caller's context being live.
C13_Witness ==
    /\ WrapReturned("WithTimeout")
    /\ wr.script[1] = "block"
    /\ callerErr = Nil
    /\ tFired
    /\ rRet = DeadlineExceeded

----------------------------------------------------------------------------
(* Further properties of the combinators *)

CombInFlight(kind) == comb.kind = kind /\ kpc \in {"launch", "wait"}

NumChecks == Len(comb.checks)

\* The error text e occurs inside the error text f.
Contains(e, f) ==
    \E off \in 0..(Len(f) - Len(e)) : \A j \in 1..Len(e) : f[off + j] = e[j]

\* The channel holds the result of every sub-probe, each once.
AllCollected ==
    /\ Len(chan) = NumChecks
    /\ \A e \in {subErr[k] : k \in 1..NumChecks} :
          Cardinality({j \in 1..Len(chan) : chan[j] = e})
             = Cardinality({k \in 1..NumChecks : subErr[k] = e})

\* C14: Any runs every sub-probe to completion whatever the earlier
\* results; no sub-probe's success or failure cancels the context of its
\* siblings (only the caller does); and the verdict is computed only after
\* every result has been collected.
C14_AnyRunsAllToCompletion ==
    /\ CombInFlight("Any") =>
          /\ gctxErr = callerErr
          /\ callerErr = Nil => gErr = Nil
          /\ \A k \in 1..NumChecks :
                (wpc[k] = "running" /\ SubKind(k) \in {"ok", "fail"})
                   => ENABLED ChanWorker(k, "send")
    /\ CombReturned("Any") =>
          /\ \A k \in 1..NumChecks : wpc[k] = "done"
          /\ gErr = Nil => AllCollected

\* Witness of C14: the success was collected first, and the failing sibling
\* still ran and was collected before Any returned.
C14_Witness ==
    /\ CombReturned("Any")
    /\ NumChecks = 2
    /\ callerErr = Nil
    /\ chan = <<Nil, ProbeErr("2")>>
    /\ kRet = Nil

\* C15 as stated: whatever the state of the caller's context, Any fails
\* only if no sub-probe succeeded, and then with the last observed
\* sub-probe failure as the reason.
C15_AnyFailsOnlyIfNoneSucceeded ==
    (CombReturned("Any") /\ kRet # Nil)
        => /\ Succeeded = {}
           /\ chan # <<>> => kRet = <<"all checks failed: ">> \o chan[Len(chan)]

\* C15 amended: under a caller context that is not cancelled during the
\* call Any fails only if no sub-probe succeeded, with the last observed
\* failure as the reason; after a cancellation it either gives that same
\* verdict over all results or fails with the context's error.
C15_AnyFailsOnlyIfNoneSucceededOrCancelled ==
    (CombReturned("Any") /\ kRet # Nil)
        => \/ /\ gErr = Nil
              /\ Succeeded = {}
              /\ AllCollected
              /\ chan # <<>> => kRet = <<"all checks failed: ">> \o chan[Len(chan)]
           \/ /\ gErr # Nil
              /\ callerErr \in CtxErrors
              /\ kRet = <<"waiting errgroup: ">> \o callerErr

\* Witness of C15: the caller cancelled, and Any failed with the context's
\* error although a sub-probe had succeeded.
C15_Witness ==
    /\ CombReturned("Any")
    /\ callerErr = Canceled
    /\ Succeeded # {}
    /\ kRet = <<"waiting errgroup: ">> \o Canceled

\* The sub-probes whose Check returned an error.
Failed == {k \in 1..NumChecks : subErr[k] # Nil}

\* C16 as stated: the error of a failing All covers every failing sub-probe.
C16_AllAggregatesEveryFailure ==
    (CombReturned("All") /\ kRet # Nil)
        => \A k \in Failed : Contains(subErr[k], kRet)

\* C16 amended: the error of a failing All is "waiting errgroup: " around the
\* error of one failing sub-probe, the one the errgroup recorded first.
C16_AllReturnsFirstFailure ==
    /\ CombInFlight("All") =>
          /\ gErr # Nil <=> Failed # {}
          /\ gErr # Nil => \E k \in Failed : subErr[k] = gErr
    /\ (CombReturned("All") /\ kRet # Nil)
          => /\ kRet = <<"waiting errgroup: ">> \o gErr
             /\ \E k \in Failed : kRet = <<"waiting errgroup: ">> \o subErr[k]

\* Witness of C16: two sub-probes failed and the error names only one.
C16_Witness ==
    /\ CombReturned("All")
    /\ subErr = <<ProbeErr("1"), ProbeErr("2")>>
    /\ kRet = <<"waiting errgroup: ">> \o ProbeErr("2")
    /\ ~Contains(ProbeErr("1"), kRet)

\* C17: the sub-probes of All share one derived context: the caller's
\* cancellation ends it for all of them, and so does the first failure of a
\* sub-probe, so that those still running on it can return.
C17_AllSharesFailFastContext ==
    CombInFlight("All") =>
        /\ callerErr # Nil => gctxErr \in {callerErr, Canceled}
        /\ Failed # {} => gctxErr # Nil
        /\ (callerErr = Nil /\ Failed = {}) => gctxErr = Nil
        /\ \A k \in 1..NumChecks :
              /\ (wpc[k] = "running" /\ gctxErr # Nil) => ENABLED AllWorker(k)
              /\ (wpc[k] = "done" /\ SubKind(k) = "block") => subErr[k] = gctxErr

\* Witness of C17: under a live caller context the first sub-probe failed
\* and the sibling waiting for its context returned cancelled.
C17_Witness ==
    /\ comb.kind = "All"
    /\ NumChecks = 2
    /\ SubKind(1) = "fail" /\ SubKind(2) = "block"
    /\ callerErr = Nil
    /\ subErr = <<ProbeErr("1"), Canceled>>

----------------------------------------------------------------------------
(* Package docker: the background-refresh check.  Time is a clock of ticks *)
(* of half a second that the environment advances; the goroutines may lag  *)
(* behind it.                                                               *)

MaxTime == 5

\* time.Second in clock ticks.
Second == 2

DefaultTimeout == 5 * Second

\* A map[string]string is a function from its keys; a missing key reads "".
Get(m, key) == IF key \in DOMAIN m THEN m[key] ELSE ""

NoLabels == [key \in {} |-> ""]

AppLabels == [key \in {"app"} |-> "status"]

AppEnvLabels == [key \in {"app", "env"} |-> IF key = "app" THEN "status" ELSE "prod"]

LabelMaps == {NoLabels, AppLabels, AppEnvLabels}

\* The keys in the order fmt prints a map: sorted.
SortedKeys == <<"app", "env">>

\* fmt's %v of a map[string]string: map[k:v k:v].
RECURSIVE FormatEntries(_, _, _)
FormatEntries(m, keys, first) ==
    IF keys = <<>> THEN <<>>
    ELSE IF Head(keys) \in DOMAIN m
         THEN (IF first THEN <<>> ELSE <<" ">>) \o <<Head(keys), ":", m[Head(keys)]>>
                 \o FormatEntries(m, Tail(keys), FALSE)
         ELSE FormatEntries(m, Tail(keys), first)

FormatLabels(m) == <<"map[">> \o FormatEntries(m, SortedKeys, TRUE) \o <<"]">>

Container(id, labels, state) == [ID |-> id, Labels |-> labels, State |-> state]

\* What the daemon may hold: a listing that fails, or a list of containers.
Worlds ==
    { [err |-> <<"daemon unreachable">>, containers |-> <<>>],
      [err |-> Nil, containers |-> <<>>],
      [err |-> Nil, containers |-> <<Container("abc", AppEnvLabels, "running")>>],
      [err |-> Nil, containers |-> <<Container("abc", AppEnvLabels, "running"),
                                     Container("def", AppEnvLabels, "exited")>>],
      [err |-> Nil, containers |-> <<Container("ghi", [key \in {"env"} |-> "prod"], "exited"),
                                     Container("abc", AppEnvLabels, "running")>>] }

Intervals == {-1, 0, 1, 2}

Timeouts == {0, 1}

dkFrame == <<hcVars, egVars, cbVars, wrVars, kfVars, pgVars, psVars, muVars>>

\* dc.matchesLabels(found)
matchesLabels(labels, found) ==
    \A key \in DOMAIN labels : Get(found, key) = labels[key]

\* The loop of checkContainers over the listed containers.
RECURSIVE CheckLoop(_, _, _)
CheckLoop(labels, containers, matched) ==
    IF containers = <<>>
    THEN IF matched = 0
         THEN <<"no containers found with labels ">> \o FormatLabels(labels)
         ELSE Nil
    ELSE LET container == Head(containers)
         IN IF ~matchesLabels(labels, container.Labels)
            THEN CheckLoop(labels, Tail(containers), matched)
            ELSE IF container.State # "running"
                 THEN <<"container ", container.ID, " not running (state=",
                        container.State, ")">>
                 ELSE CheckLoop(labels, Tail(containers), matched + 1)

\* dc.checkContainers(ctx), the listing having returned (containers, err).
checkContainers(labels, listing) ==
    IF listing.err # Nil THEN Wrap("list docker containers: ", listing.err)
    ELSE CheckLoop(labels, listing.containers, 0)

\* What ContainerList may return under a context whose Err() is ctxErr: the
\* daemon's answer, or the context's error once the context is done.
ContainerList(ctxErr) ==
    {world} \cup (IF ctxErr # Nil THEN {[err |-> ctxErr, containers |-> <<>>]} ELSE {})

\* Mutant of WgWait: Close does not wait for the background tasks.
WgWaitNone(tasks) == TRUE

\* wg.Wait() of Close returns: every background task of the instance has
\* run its deferred wg.Done().
WgWait(tasks) == tasks \subseteq {"exited"}

\* Mutant of AfterRefresh: a failed refresh ends the loop.
AfterRefreshStopOnError(err) == IF err # Nil THEN "exited" ELSE "select"

\* Where the loop is after dc.refresh returned: back at its select, whatever
\* the refresh stored.
AfterRefresh(err) == "select"

\* Mutant of RefreshStore: the time of the refresh is not recorded.
RefreshStoreErrOnly(err, t) == [lastErr |-> err, lastChecked |-> dcLastChecked]

\* Mutant of RefreshStore: a stored failure is never replaced.
RefreshStoreKeepFailure(err, t) ==
    [lastErr |-> IF dcLastErr # Nil THEN dcLastErr ELSE err, lastChecked |-> t]

\* What refresh stores under the lock.
RefreshStore(err, t) == [lastErr |-> err, lastChecked |-> t]

\* Mutant of StaleLimit: stale after one interval.
StaleLimitInterval(interval) == interval

\* The age above which Check reports the cached result as stale.
StaleLimit(interval) == interval * 2

\* Mutant of DockerCheckReturn: the caller's context is not looked at.
DockerCheckReturnNoCtx(ctxErr, lastErr, lastChecked, since, interval) ==
    IF lastChecked = 0
         THEN <<"docker check has not completed an initial run">>
    ELSE IF since > StaleLimit(interval)
         THEN <<"docker check result stale: last=", ToString(since),
                " interval=", ToString(interval)>>
    ELSE lastErr

\* dc.Check(ctx), time.Since(lastChecked) being since.
DockerCheckReturn(ctxErr, lastErr, lastChecked, since, interval) ==
    IF ctxErr # Nil THEN Wrap("docker check context: ", ctxErr)
    ELSE IF lastChecked = 0
         THEN <<"docker check has not completed an initial run">>
    ELSE IF since > StaleLimit(interval)
         THEN <<"docker check result stale: last=", ToString(since),
                " interval=", ToString(interval)>>
    ELSE lastErr

\* Mutant of NewCheckError: an interval of zero is accepted.
NewCheckErrorNegative(labels, interval) ==
    IF DOMAIN labels = {} THEN <<"labels must not be empty">>
    ELSE IF interval < 0 THEN <<"interval must be positive">>
    ELSE Nil

\* The validation of newCheck: the error it returns, or nil.
NewCheckError(labels, interval) ==
    IF DOMAIN labels = {} THEN <<"labels must not be empty">>
    ELSE IF interval <= 0 THEN <<"interval must be positive">>
    ELSE Nil

\* newCheck up to its call of dc.refresh, or to its return of an error.
NewCheck(labels, interval, timeout) ==
    /\ dcPc \in {"none", "failed"}
    /\ IF NewCheckError(labels, interval) # Nil
       THEN /\ newErr' = NewCheckError(labels, interval)
            /\ dcPc' = "failed"
            /\ UNCHANGED dc
       ELSE /\ dc' = [labels |-> labels, interval |-> interval,
                      timeout |-> IF timeout = 0 THEN DefaultTimeout ELSE timeout]
            /\ newErr' = Nil
            /\ dcPc' = "refresh"
    /\ UNCHANGED <<now, world, loopPc, dcLastErr, dcLastChecked, dcNextTick, dcTick,
                   dcCtxErr, dcClosePc, dcRet>>
    /\ UNCHANGED dkFrame

\* The refresh made by newCheck completes; newCheck starts the loop's
\* goroutine and returns the instance.
NewCheckRefresh ==
    /\ dcPc = "refresh"
    /\ \E listing \in ContainerList(dcCtxErr) :
          LET st == RefreshStore(checkContainers(dc.labels, listing), now)
          IN /\ dcLastErr' = st.lastErr
             /\ dcLastChecked' = st.lastChecked
    /\ dcPc' = "constructed"
    /\ loopPc' = "start"
    /\ UNCHANGED <<now, world, dc, newErr, dcNextTick, dcTick, dcCtxErr, dcClosePc, dcRet>>
    /\ UNCHANGED dkFrame

\* dc.loop begins: the ticker is created.
LoopStart ==
    /\ loopPc = "start"
    /\ loopPc' = "select"
    /\ dcNextTick' = now + dc.interval
    /\ dcTick' = FALSE
    /\ UNCHANGED <<now, world, dc, dcPc, newErr, dcLastErr, dcLastChecked, dcCtxErr,
                   dcClosePc, dcRet>>
    /\ UNCHANGED dkFrame

\* The loop's select takes a tick and calls dc.refresh.
LoopTick ==
    /\ loopPc = "select"
    /\ dcTick
    /\ dcTick' = FALSE
    /\ loopPc' = "refresh"
    /\ UNCHANGED <<now, world, dc, dcPc, newErr, dcLastErr, dcLastChecked, dcNextTick,
                   dcCtxErr, dcClosePc, dcRet>>
    /\ UNCHANGED dkFrame

\* The loop's refresh completes and the loop is back at its select.
LoopRefresh ==
    /\ loopPc = "refresh"
    /\ \E listing \in ContainerList(dcCtxErr) :
          LET st == RefreshStore(checkContainers(dc.labels, listing), now)
          IN /\ dcLastErr' = st.lastErr
             /\ dcLastChecked' = st.lastChecked
             /\ loopPc' = AfterRefresh(st.lastErr)
    /\ UNCHANGED <<now, world, dc, dcPc, newErr, dcNextTick, dcTick, dcCtxErr,
                   dcClosePc, dcRet>>
    /\ UNCHANGED dkFrame

\* The loop's select takes <-dc.ctx.Done(): the goroutine exits.
LoopExit ==
    /\ loopPc = "select"
    /\ dcCtxErr # Nil
    /\ loopPc' = "exited"
    /\ UNCHANGED <<now, world, dc, dcPc, newErr, dcLastErr, dcLastChecked, dcNextTick,
                   dcTick, dcCtxErr, dcClosePc, dcRet>>
    /\ UNCHANGED dkFrame

\* dc.Check(ctx) under a context whose Err() is ctxErr.
DockerCheck(ctxErr) ==
    /\ dcPc = "constructed"
    /\ dcRet' = [called |-> TRUE, ctxErr |-> ctxErr, lastErr |-> dcLastErr,
                 since |-> now - dcLastChecked,
                 err |-> DockerCheckReturn(ctxErr, dcLastErr, dcLastChecked,
                                           now - dcLastChecked, dc.interval)]
    /\ UNCHANGED <<now, world, dc, dcPc, newErr, loopPc, dcLastErr, dcLastChecked,
                   dcNextTick, dcTick, dcCtxErr, dcClosePc>>
    /\ UNCHANGED dkFrame

\* dc.Close up to wg.Wait.
DockerClose ==
    /\ dcPc = "constructed"
    /\ dcClosePc = "none"
    /\ dcCtxErr' = Canceled
    /\ dcClosePc' = "wait"
    /\ UNCHANGED <<now, world, dc, dcPc, newErr, loopPc, dcLastErr, dcLastChecked,
                   dcNextTick, dcTick, dcRet>>
    /\ UNCHANGED dkFrame

\* wg.Wait returns once the loop exited; the client is closed and Close returns.
DockerCloseWait ==
    /\ dcClosePc = "wait"
    /\ WgWait({loopPc})
    /\ dcClosePc' = "closed"
    /\ UNCHANGED <<now, world, dc, dcPc, newErr, loopPc, dcLastErr, dcLastChecked,
                   dcNextTick, dcTick, dcCtxErr, dcRet>>
    /\ UNCHANGED dkFrame

\* The containers change.
WorldChange(w) ==
    /\ w # world
    /\ world' = w
    /\ UNCHANGED <<now, dc, dcPc, newErr, loopPc, dcLastErr, dcLastChecked, dcNextTick,
                   dcTick, dcCtxErr, dcClosePc, dcRet>>
    /\ UNCHANGED dkFrame

\* Half a second passes.  A running ticker whose time has come puts a tick
\* in its channel, or drops it when one is waiting there.
DockerClock ==
    /\ now < MaxTime
    /\ now' = now + 1
    /\ IF loopPc \in {"select", "refresh"} /\ now + 1 >= dcNextTick
       THEN /\ dcTick' = TRUE
            /\ dcNextTick' = dcNextTick + dc.interval
       ELSE UNCHANGED <<dcTick, dcNextTick>>
    /\ UNCHANGED <<world, dc, dcPc, newErr, loopPc, dcLastErr, dcLastChecked, dcCtxErr,
                   dcClosePc, dcRet>>
    /\ UNCHANGED dkFrame

NextDocker ==
    \/ \E labels \in LabelMaps, interval \in Intervals, timeout \in Timeouts :
          NewCheck(labels, interval, timeout)
    \/ NewCheckRefresh
    \/ LoopStart
    \/ LoopTick
    \/ LoopRefresh
    \/ LoopExit
    \/ \E ctxErr \in {Nil} \cup CtxErrors : DockerCheck(ctxErr)
    \/ DockerClose
    \/ DockerCloseWait
    \/ \E w \in Worlds : WorldChange(w)
    \/ DockerClock

SpecDocker == Init /\ [][NextDocker]_vars

----------------------------------------------------------------------------
(* Properties of the docker check *)

StaleError(since, interval) ==
    <<"docker check result stale: last=", ToString(since),
      " interval=", ToString(interval)>>

\* C18: under a live context dc.Check returns the cached result of the
\* last refresh as it is when now - lastChecked <= 2 * interval, and the
\* staleness failure when now - lastChecked > 2 * interval, whether the
\* cached result is a success or a failure.
C18_CachedUnlessStale ==
    (dcRet.called /\ dcRet.ctxErr = Nil)
        => /\ dcRet.since <= 2 * dc.interval => dcRet.err = dcRet.lastErr
           /\ dcRet.since > 2 * dc.interval
                 => dcRet.err = StaleError(dcRet.since, dc.interval)

\* Witness of C18: a cached success three ticks old is reported as stale
\* by a check whose interval is one tick.
C18_Witness ==
    /\ dcRet.called
    /\ dcRet.ctxErr = Nil
    /\ dc.interval = 1
    /\ dcRet.lastErr = Nil
    /\ dcRet.since = 3
    /\ dcRet.err = StaleError(3, 1)

\* C19: once newCheck has returned an instance, lastChecked is not the
\* zero time, and no Check returns the not-yet-run failure.
C19_InitialRefreshDone ==
    dcPc = "constructed"
        => /\ dcLastChecked # 0
           /\ dcRet.called
                 => dcRet.err # <<"docker check has not completed an initial run">>

\* Witness of C19: the first Check on a new instance, made before the loop
\* has refreshed anything, returns the result of newCheck's own refresh.
C19_Witness ==
    /\ dcPc = "constructed"
    /\ loopPc = "start"
    /\ dcRet.called
    /\ dcRet.ctxErr = Nil
    /\ dcLastChecked # 0
    /\ dcRet.err = dcLastErr
    /\ dcRet.err = <<"container ", "def", " not running (state=", "exited", ")">>

----------------------------------------------------------------------------
(* Package kafka: the ping check.  The same clock; the partition is the    *)
(* queue of the timestamps of the pings produced and not yet consumed.     *)

MaxMsgs == 2

pingIntervalDivisor == 2

StaleAfters == {1, 4, 6}

SetupOutcomes == {"ok", "consumer", "producer"}

kfFrame == <<hcVars, egVars, cbVars, wrVars, dkVars, pgVars, psVars, muVars>>

\* Mutant of NewInMemoryPingStore: the store starts with the current time.
NewInMemoryPingStoreNow == [last |-> now]

\* NewInMemoryPingStore(): the zero Time.
NewInMemoryPingStore == [last |-> 0]

\* Mutant of SetProcessed: the later of the two timestamps is kept.
SetProcessedLatest(s, ts) == [s EXCEPT !.last = IF ts > s.last THEN ts ELSE s.last]

\* s.SetProcessed(ctx, ts)
SetProcessed(s, ts) == [s EXCEPT !.last = ts]

\* s.LastProcessed(ctx)
LastProcessed(s) == [last |-> s.last, err |-> Nil]

\* pingInterval of produceLoop.
PingInterval(staleAfter) ==
    LET pingInterval == staleAfter \div pingIntervalDivisor
    IN IF pingInterval < Second THEN Second ELSE pingInterval

\* The partition after pc.sendPing(): SendMessage failed, or the ping is there.
SendPing(ok) == IF ok THEN Append(msgs, now) ELSE msgs

\* Mutant of KafkaCheckReturn: the zero time is not told apart from an old ping.
KafkaCheckReturnNoZero(read, staleAfter) ==
    IF read.err # Nil THEN Wrap("failed to read ping store: ", read.err)
    ELSE IF now - read.last > staleAfter
         THEN <<"last ping is stale: age=", ToString(now - read.last),
                " stale_after=", ToString(staleAfter)>>
    ELSE Nil

\* pc.Check(ctx), given what store.LastProcessed returned.
KafkaCheckReturn(read, staleAfter) ==
    IF read.err # Nil THEN Wrap("failed to read ping store: ", read.err)
    ELSE IF read.last = 0 THEN <<"ping store has no recorded timestamp">>
    ELSE IF now - read.last > staleAfter
         THEN <<"last ping is stale: age=", ToString(now - read.last),
                " stale_after=", ToString(staleAfter)>>
    ELSE Nil

\* PingCheck with a nil store: the instance with its goroutines started, or
\* the error of setupConsumer or setupProducer.
PingCheck(staleAfter, setup) ==
    /\ pcPc \in {"none", "failed"}
    /\ IF setup = "ok"
       THEN /\ pc' = [staleAfter |-> staleAfter]
            /\ store' = NewInMemoryPingStore
            /\ pcPc' = "running"
            /\ prodPc' = "start"
            /\ consPc' = "select"
            /\ pcCtxErr' = Nil
       ELSE /\ pcPc' = "failed"
            /\ pcCtxErr' = Canceled
            /\ UNCHANGED <<pc, store, prodPc, consPc>>
    /\ UNCHANGED <<now, msgs, pcNextTick, pcTick, pcClosePc, pcRet>>
    /\ UNCHANGED kfFrame

\* produceLoop begins: the ticker is created and the first ping is sent.
ProduceStart(ok) ==
    /\ prodPc = "start"
    /\ Len(msgs) < MaxMsgs
    /\ pcNextTick' = now + PingInterval(pc.staleAfter)
    /\ pcTick' = FALSE
    /\ msgs' = SendPing(ok)
    /\ prodPc' = "select"
    /\ UNCHANGED <<now, pc, pcPc, consPc, store, pcCtxErr, pcClosePc, pcRet>>
    /\ UNCHANGED kfFrame

\* The producer's select takes a tick and sends a ping.
ProduceTick(ok) ==
    /\ prodPc = "select"
    /\ pcTick
    /\ Len(msgs) < MaxMsgs
    /\ pcTick' = FALSE
    /\ msgs' = SendPing(ok)
    /\ UNCHANGED <<now, pc, pcPc, prodPc, consPc, store, pcNextTick, pcCtxErr,
                   pcClosePc, pcRet>>
    /\ UNCHANGED kfFrame

\* The producer's select takes <-pc.ctx.Done().
ProduceExit ==
    /\ prodPc = "select"
    /\ pcCtxErr # Nil
    /\ prodPc' = "exited"
    /\ UNCHANGED <<now, pc, pcPc, consPc, store, msgs, pcNextTick, pcTick, pcCtxErr,
                   pcClosePc, pcRet>>
    /\ UNCHANGED kfFrame

\* The consumer's select takes a message and records its timestamp.
ConsumeMessage ==
    /\ consPc = "select"
    /\ msgs # <<>>
    /\ store' = SetProcessed(store, Head(msgs))
    /\ msgs' = Tail(msgs)
    /\ UNCHANGED <<now, pc, pcPc, prodPc, consPc, pcNextTick, pcTick, pcCtxErr,
                   pcClosePc, pcRet>>
    /\ UNCHANGED kfFrame

\* The consumer's select takes <-pc.ctx.Done().
ConsumeExit ==
    /\ consPc = "select"
    /\ pcCtxErr # Nil
    /\ consPc' = "exited"
    /\ UNCHANGED <<now, pc, pcPc, prodPc, store, msgs, pcNextTick, pcTick, pcCtxErr,
                   pcClosePc, pcRet>>
    /\ UNCHANGED kfFrame

\* pc.Check(ctx) under a context whose Err() is ctxErr.
KafkaCheck(ctxErr) ==
    /\ pcPc = "running"
    /\ LET read == LastProcessed(store)
       IN pcRet' = [calls |-> IF pcRet.calls < 2 THEN pcRet.calls + 1 ELSE 2,
                    ctxErr |-> ctxErr,
                    last |-> read.last,
                    err |-> KafkaCheckReturn(read, pc.staleAfter)]
    /\ UNCHANGED <<now, pc, pcPc, prodPc, consPc, store, msgs, pcNextTick, pcTick,
                   pcCtxErr, pcClosePc>>
    /\ UNCHANGED kfFrame

\* pc.Close up to wg.Wait.
KafkaClose ==
    /\ pcPc = "running"
    /\ pcClosePc = "none"
    /\ pcCtxErr' = Canceled
    /\ pcClosePc' = "wait"
    /\ UNCHANGED <<now, pc, pcPc, prodPc, consPc, store, msgs, pcNextTick, pcTick, pcRet>>
    /\ UNCHANGED kfFrame

\* wg.Wait returns once both loops exited; the clients are closed.
KafkaCloseWait ==
    /\ pcClosePc = "wait"
    /\ WgWait({prodPc, consPc})
    /\ pcClosePc' = "closed"
    /\ UNCHANGED <<now, pc, pcPc, prodPc, consPc, store, msgs, pcNextTick, pcTick,
                   pcCtxErr, pcRet>>
    /\ UNCHANGED kfFrame

\* Half a second passes; the producer's ticker fires when its time has come.
KafkaClock ==
    /\ now < MaxTime
    /\ now' = now + 1
    /\ IF prodPc = "select" /\ now + 1 >= pcNextTick
       THEN /\ pcTick' = TRUE
            /\ pcNextTick' = pcNextTick + PingInterval(pc.staleAfter)
       ELSE UNCHANGED <<pcTick, pcNextTick>>
    /\ UNCHANGED <<pc, pcPc, prodPc, consPc, store, msgs, pcCtxErr, pcClosePc, pcRet>>
    /\ UNCHANGED kfFrame

NextKafka ==
    \/ \E staleAfter \in StaleAfters, setup \in SetupOutcomes : PingCheck(staleAfter, setup)
    \/ \E ok \in BOOLEAN : ProduceStart(ok)
    \/ \E ok \in BOOLEAN : ProduceTick(ok)
    \/ ProduceExit
    \/ ConsumeMessage
    \/ ConsumeExit
    \/ \E ctxErr \in {Nil} \cup CtxErrors : KafkaCheck(ctxErr)
    \/ KafkaClose
    \/ KafkaCloseWait
    \/ KafkaClock

SpecKafka == Init /\ [][NextKafka]_vars

----------------------------------------------------------------------------
(* Properties of the kafka ping check *)

NoTimestamp == <<"ping store has no recorded timestamp">>

\* C20 as stated: PingCheck has refreshed once before it returns, so the
\* first Check of a new instance does not fail for want of a timestamp.
C20_FirstCheckHasTimestamp ==
    (pcPc = "running" /\ pcRet.calls = 1) => pcRet.err # NoTimestamp

\* C20 amended: PingCheck only starts the producer and the consumer.  The
\* store of a new instance holds the zero time until the consumer has taken
\* a ping, which cannot be before the producer sent one; a Check fails with
\* the no-timestamp reason exactly when it reads the zero time.
C20_NoTimestampUntilPingConsumed ==
    pcPc = "running"
        => /\ prodPc = "start" => (store.last = 0 /\ msgs = <<>>)
           /\ (pcRet.calls = 0 /\ prodPc = "start")
                 => KafkaCheckReturn(LastProcessed(store), pc.staleAfter) = NoTimestamp
           /\ pcRet.calls > 0 => (pcRet.err = NoTimestamp <=> pcRet.last = 0)

\* Witness of C20: the first Check of a new instance, made after a ping
\* was sent and before it was consumed, failed for want of a timestamp.
C20_Witness ==
    /\ pcPc = "running"
    /\ pcRet.calls = 1
    /\ prodPc = "select"
    /\ msgs # <<>>
    /\ store.last = 0
    /\ pcRet.err = NoTimestamp

----------------------------------------------------------------------------
(* A background-refresh probe of either kind: the application constructs   *)
(* a docker check or a kafka ping check; the two share nothing.            *)

NextBackground ==
    \/ pcPc = "none" /\ NextDocker
    \/ dcPc = "none" /\ NextKafka

SpecBackground == Init /\ [][NextBackground]_vars

\* C21: Close cancels, waits, then releases: when the docker client or the
\* kafka clients are closed, every background task of the instance has
\* exited, so that no refresh, send or receive can start or be under way
\* from then on.
C21_CloseAfterTasksExited ==
    /\ dcClosePc = "closed" =>
          /\ dcCtxErr # Nil
          /\ loopPc = "exited"
          /\ ~ENABLED LoopStart
          /\ ~ENABLED LoopTick
          /\ ~ENABLED LoopRefresh
    /\ pcClosePc = "closed" =>
          /\ pcCtxErr # Nil
          /\ prodPc = "exited" /\ consPc = "exited"
          /\ ~ENABLED (\E ok \in BOOLEAN : ProduceStart(ok) \/ ProduceTick(ok))
          /\ ~ENABLED ConsumeMessage

\* Witness of C21: a docker check that had refreshed in its loop is closed.
C21_Witness ==
    /\ dcClosePc = "closed"
    /\ loopPc = "exited"
    /\ dcLastChecked > 1

\* The loop's goroutine has not returned.
LoopAlive == loopPc \in {"start", "select", "refresh"}

\* C22: a refresh of the loop stores what checkContainers returned, a
\* failure included, with the current time, and leaves the loop at its
\* select; until the instance is closed the loop stays alive, takes every
\* tick it finds and completes every refresh, so a later result replaces
\* the cached one.
C22_FailedRefreshStoredLoopGoesOn ==
    /\ [](/\ (dcPc = "constructed" /\ dcCtxErr = Nil) => LoopAlive
          /\ (loopPc = "select" /\ dcTick) => ENABLED LoopTick
          /\ loopPc = "refresh" => ENABLED LoopRefresh)
    /\ [][(loopPc = "refresh" /\ loopPc' # "refresh")
             => /\ loopPc' = "select"
                /\ dcLastChecked' = now
                /\ dcLastErr' \in {checkContainers(dc.labels, listing) :
                                      listing \in ContainerList(dcCtxErr)}]_vars

\* Witness of C22: a Check had returned the cached success; a refresh of
\* the loop has now stored a failure, and the loop is back at its select.
C22_Witness ==
    /\ dcRet.called /\ dcRet.ctxErr = Nil /\ dcRet.err = Nil
    /\ dcCtxErr = Nil
    /\ loopPc = "select"
    /\ dcLastErr = <<"list docker containers: ", "daemon unreachable">>
    /\ dcLastChecked = now

\* C23: newCheck with empty labels or an interval <= 0 returns an error and
\* no instance, starts no background task and makes no refresh; an instance
\* exists only with labels and a positive interval.
C23_InvalidParametersRejected ==
    /\ dcPc = "failed" =>
          /\ newErr \in {<<"labels must not be empty">>, <<"interval must be positive">>}
          /\ loopPc = "none"
          /\ dcLastChecked = 0
          /\ ~ENABLED NewCheckRefresh
          /\ ~ENABLED LoopStart
          /\ ~ENABLED (\E ctxErr \in {Nil} \cup CtxErrors : DockerCheck(ctxErr))
    /\ dcPc \in {"refresh", "constructed"} =>
          /\ newErr = Nil
          /\ DOMAIN dc.labels # {}
          /\ dc.interval > 0
    /\ \A labels \in LabelMaps, interval \in Intervals :
          (DOMAIN labels = {} \/ interval <= 0) <=> NewCheckError(labels, interval) # Nil

\* Witness of C23: newCheck rejected a non-positive interval.
C23_Witness ==
    /\ dcPc = "failed"
    /\ newErr = <<"interval must be positive">>
    /\ loopPc = "none"
    /\ dcLastChecked = 0

\* C24 as stated: the Check of a background-refresh probe, docker's or
\* kafka's, called with a context that is already done fails with a failure
\* of the context, whatever is cached.
C24_CancelledCheckFailsWithContext ==
    /\ (dcRet.called /\ dcRet.ctxErr # Nil)
          => dcRet.err = <<"docker check context: ">> \o dcRet.ctxErr
    /\ (pcRet.calls > 0 /\ pcRet.ctxErr # Nil)
          => (pcRet.err # Nil /\ Contains(pcRet.ctxErr, pcRet.err))

\* C24 amended: the docker Check called with a context that is already done
\* fails with "docker check context: " and the context's error, whatever is
\* cached.  The kafka ping Check does not look at its context: it returns
\* what the stored timestamp gives, success included.
C24_DockerFailsKafkaIgnoresContext ==
    /\ (dcRet.called /\ dcRet.ctxErr # Nil)
          => dcRet.err = <<"docker check context: ">> \o dcRet.ctxErr
    /\ pcRet.calls > 0
          => /\ pcRet.last = 0 <=> pcRet.err = NoTimestamp
             /\ pcRet.last # 0 =>
                   \/ pcRet.err = Nil
                   \/ /\ pcRet.err # Nil
                      /\ Head(pcRet.err) = "last ping is stale: age="
             /\ pcRet.ctxErr # Nil => ~Contains(pcRet.ctxErr, pcRet.err)

\* Witness of C24: a kafka ping Check called with a cancelled context
\* returned success.
C24_Witness ==
    /\ pcRet.calls > 0
    /\ pcRet.ctxErr = Canceled
    /\ pcRet.last # 0
    /\ pcRet.err = Nil

----------------------------------------------------------------------------
(* One refresh of the docker check over every listing of up to             *)
(* MaxContainers containers: newCheck and its first refresh.               *)

MaxContainers == 2

\* Label maps to configure: those of the tests, and a label with an empty value.
RefreshLabels == LabelMaps \cup {[key \in {"app"} |-> ""]}

SampleContainers ==
    { Container("abc", AppEnvLabels, "running"),
      Container("def", AppEnvLabels, "exited"),
      Container("ghi", [key \in {"env"} |-> "prod"], "running"),
      Container("jkl", [key \in {"env"} |-> "prod"], "exited") }

RECURSIVE ContainerLists(_)
ContainerLists(n) ==
    IF n = 0 THEN { <<>> }
    ELSE LET shorter == ContainerLists(n - 1)
         IN shorter \cup { Append(cs, c) : cs \in shorter, c \in SampleContainers }

Listings ==
    { [err |-> <<"daemon unreachable">>, containers |-> <<>>] }
       \cup { [err |-> Nil, containers |-> cs] : cs \in ContainerLists(MaxContainers) }

NextRefresh ==
    \/ \E labels \in RefreshLabels, interval \in Intervals, timeout \in Timeouts :
          NewCheck(labels, interval, timeout)
    \/ \E w \in Listings : dcPc # "constructed" /\ WorldChange(w)
    \/ NewCheckRefresh

SpecRefresh == Init /\ [][NextRefresh]_vars

\* The container carries every configured label with the configured value.
Carries(container, labels) ==
    \A key \in DOMAIN labels :
       key \in DOMAIN container.Labels /\ container.Labels[key] = labels[key]

\* The verdict C25 gives for a listing.
HealthyAsClaimed(labels, listing) ==
    /\ listing.err = Nil
    /\ \E j \in 1..Len(listing.containers) : Carries(listing.containers[j], labels)
    /\ \A j \in 1..Len(listing.containers) :
          Carries(listing.containers[j], labels)
             => listing.containers[j].State = "running"

\* C25: the verdict of a refresh is healthy exactly when the listing
\* succeeded, some listed container carries every configured label with its
\* configured value, and every such container is running.
C25_HealthyIffMatchingRunning ==
    (dcPc = "constructed" /\ loopPc = "start")
        => (dcLastErr = Nil <=> HealthyAsClaimed(dc.labels, world))

----------------------------------------------------------------------------
(* Package status: the status page.  Page.Handler groups the results that  *)
(* HealthChecker.Check returned and renders them.                          *)

MaxResults == 4

\* Group names of the page's targets, "" being no group.
PageGroups == {"", "api", "apis", "Zeta"}

\* The bytes of a group name (Go compares strings byte by byte).
Bytes(s) ==
    CASE s = "" -> <<>>
      [] s = "api" -> <<97, 112, 105>>
      [] s = "apis" -> <<97, 112, 105, 115>>
      [] s = "Zeta" -> <<90, 101, 116, 97>>

\* a < b on byte strings.
RECURSIVE BytesLess(_, _)
BytesLess(a, b) ==
    IF b = <<>> THEN FALSE
    ELSE IF a = <<>> THEN TRUE
    ELSE IF Head(a) # Head(b) THEN Head(a) < Head(b)
    ELSE BytesLess(Tail(a), Tail(b))

\* groups[i].Name < groups[j].Name
NameLess(g, h) == BytesLess(Bytes(g.Name), Bytes(h.Name))

\* Results Check can return: a succeeding "db" and a failing "cache" in each group.
PageSamples ==
    { NewResult(NewTarget("db", [kind |-> "ok", id |-> "db"], <<WithGroup(g)>>), Nil)
         : g \in PageGroups }
    \cup
    { NewResult(NewTarget("cache", [kind |-> "fail", id |-> "cache"], <<WithGroup(g)>>),
                <<"probe error: ", "cache">>)
         : g \in PageGroups }

RECURSIVE ResultLists(_)
ResultLists(n) ==
    IF n = 0 THEN { <<>> }
    ELSE LET shorter == ResultLists(n - 1)
         IN shorter \cup { Append(rs, r) : rs \in shorter, r \in PageSamples }

\* groupMap after the first loop of groupHealthResults over rs.
RECURSIVE groupMap(_)
groupMap(rs) ==
    IF rs = <<>> THEN <<>>
    ELSE LET m == groupMap(SubSeq(rs, 1, Len(rs) - 1))
             result == rs[Len(rs)]
             name == result.Target.Group
         IN IF name # ""
            THEN [key \in DOMAIN m \cup {name} |->
                     IF key = name
                     THEN Append(IF name \in DOMAIN m THEN m[name] ELSE <<>>, result)
                     ELSE m[key]]
            ELSE m

\* The orders in which a range over a map with these keys can visit them.
RECURSIVE MapOrders(_)
MapOrders(keys) ==
    IF keys = {} THEN { <<>> }
    ELSE UNION { { <<k>> \o rest : rest \in MapOrders(keys \ {k}) } : k \in keys }

\* sort.Slice(groups, less): the names of the groups are the keys of a map, so
\* no two are equal and the sorted slice is the same for every sorting order.
RECURSIVE SortSlice(_)
SortSlice(groups) ==
    IF groups = <<>> THEN <<>>
    ELSE LET sorted == SortSlice(Tail(groups))
             g == Head(groups)
             before == SelectSeq(sorted, LAMBDA h : NameLess(h, g))
             after == SelectSeq(sorted, LAMBDA h : ~NameLess(h, g))
         IN before \o <<g>> \o after

\* The second loop of groupHealthResults, the map being visited in this order.
GroupsInMapOrder(rs, order) ==
    [k \in 1..Len(order) |-> [Name |-> order[k], Results |-> groupMap(rs)[order[k]]]]

\* Mutant of groupHealthResults: the groups are left in the order of the map.
groupHealthResultsUnsorted(rs, order) == GroupsInMapOrder(rs, order)

\* groupHealthResults(results)
groupHealthResults(rs, order) == SortSlice(GroupsInMapOrder(rs, order))

\* getUngroupedResults(results)
RECURSIVE getUngroupedResults(_)
getUngroupedResults(rs) ==
    IF rs = <<>> THEN <<>>
    ELSE LET ungrouped == getUngroupedResults(SubSeq(rs, 1, Len(rs) - 1))
             result == rs[Len(rs)]
         IN IF result.Target.Group = "" THEN Append(ungrouped, result) ELSE ungrouped

\* The handler of the status page serves a request: Check returned rs without
\* an error, and the range over groupMap visits its keys in this order.
PageHandler(rs, order) ==
    /\ ~data.served
    /\ healthResults' = rs
    /\ data' = [served |-> TRUE,
                HealthResults |-> getUngroupedResults(rs),
                HealthGroups |-> groupHealthResults(rs, order)]
    /\ UNCHANGED <<hcVars, egVars, cbVars, wrVars, bgVars, psVars, muVars>>

\* The handler returns; its locals are gone, and the next request starts anew.
PageReturn ==
    /\ data.served
    /\ healthResults' = <<>>
    /\ data' = [served |-> FALSE, HealthResults |-> <<>>, HealthGroups |-> <<>>]
    /\ UNCHANGED <<hcVars, egVars, cbVars, wrVars, bgVars, psVars, muVars>>

NextPage ==
    \/ \E rs \in ResultLists(MaxResults) :
          \E order \in MapOrders(DOMAIN groupMap(rs)) : PageHandler(rs, order)
    \/ PageReturn

SpecPage == Init /\ [][NextPage]_vars

\* The results of rs whose target is in this group, in the order of rs.
InGroup(rs, name) == SelectSeq(rs, LAMBDA r : r.Target.Group = name)

\* C26: the page partitions the results: every group shown is non-empty and
\* holds exactly the results of that group name in their original order, every
\* result with a group name is in the group of that name, the groups are in
\* ascending order of their names (so no name twice), and the ungrouped list
\* holds exactly the results without a group in their original order.
C26_GroupingIsStablePartition ==
    data.served =>
        /\ \A k \in 1..Len(data.HealthGroups) :
              /\ data.HealthGroups[k].Name # ""
              /\ data.HealthGroups[k].Results # <<>>
              /\ data.HealthGroups[k].Results
                    = InGroup(healthResults, data.HealthGroups[k].Name)
        /\ \A k \in 1..Len(healthResults) :
              healthResults[k].Target.Group # "" =>
                 \E j \in 1..Len(data.HealthGroups) :
                    data.HealthGroups[j].Name = healthResults[k].Target.Group
        /\ \A k \in 1..(Len(data.HealthGroups) - 1) :
              NameLess(data.HealthGroups[k], data.HealthGroups[k + 1])
        /\ data.HealthResults = InGroup(healthResults, "")

\* Witness of C26: four results, the first and the last in group "api", one in
\* group "Zeta" and one without a group between them; the page shows "Zeta"
\* before "api".
C26_Witness ==
    /\ data.served
    /\ Len(healthResults) = 4
    /\ healthResults[1].Target.Group = "api"
    /\ healthResults[2].Target.Group = ""
    /\ healthResults[3].Target.Group = "Zeta"
    /\ healthResults[4].Target.Group = "api"
    /\ healthResults[1].Target.Name # healthResults[4].Target.Name
    /\ Len(data.HealthGroups) = 2
    /\ data.HealthGroups[1].Name = "Zeta"
    /\ data.HealthGroups[2].Results = <<healthResults[1], healthResults[4]>>
    /\ data.HealthResults = <<healthResults[2]>>

----------------------------------------------------------------------------
(* Target options, checked under Spec *)

\* Lists of up to two options.
OptionPairs ==
    LET options == { WithImportance(TargetImportanceLow),
                     WithImportance(TargetImportanceHigh),
                     WithIcon("fa-db"), WithIcon("fa-bolt"),
                     WithGroup("core"), WithGroup("edge") }
    IN { <<>> } \cup { <<o>> : o \in options }
                \cup { <<o, p>> : o \in options, p \in options }

\* The value the last option for this field gives, or else the default.
LastValue(opts, field, default) ==
    LET set == { k \in 1..Len(opts) : opts[k].field = field }
    IN IF set = {} THEN default
       ELSE opts[CHOOSE k \in set : \A j \in set : j <= k].value

\* The target of this result was registered with the default importance.
DefaultImportance(r) ==
    r.Target \in { NewTarget(r.Target.Name, r.Target.check, opts)
                     : opts \in { <<>>, <<WithIcon("fa-db")>>, <<WithGroup("core")>> } }

\* C27: a target registered without an importance option has importance High
\* and its failure makes /health answer 500; an option replaces the default of
\* its field, and of several options for one field the last one applies (the
\* target registered with Low, then group "core", then High is High and its
\* failure gives 500).
C27_DefaultHighLastOptionWins ==
    /\ \A opts \in OptionPairs :
          LET t == NewTarget("db", NoProbe, opts)
          IN /\ t.Importance = LastValue(opts, "Importance", TargetImportanceHigh)
             /\ t.Icon = LastValue(opts, "Icon", "")
             /\ t.Group = LastValue(opts, "Group", "")
    /\ \A k \in 1..Len(targets) :
          targets[k].Group = "core" => targets[k].Importance = TargetImportanceHigh
    /\ (hpc = "responded" /\ cpc = "returned") =>
          \A k \in 1..Len(ckRet.results) :
             /\ ckRet.results[k].Status = HealthTargetStatusFail
             /\ \/ DefaultImportance(ckRet.results[k])
                \/ ckRet.results[k].Target.Group = "core"
             => respCode = 500

\* Witness of C27: the only registered target was registered without options,
\* its probe failed, and /health answered 500.
C27_Witness ==
    /\ hpc = "responded" /\ cpc = "returned"
    /\ Len(ckRet.results) = 1
    /\ ckRet.results[1].Target = NewTarget("db", [kind |-> "fail", id |-> "db"], <<>>)
    /\ ckRet.results[1].Target.Importance = TargetImportanceHigh
    /\ ckRet.results[1].Status = HealthTargetStatusFail
    /\ respCode = 500

\* The errors the probe of target k can have returned to its worker.
ProbeReturns(k) ==
    CASE Kind(k) = "ok" -> { Nil }
      [] Kind(k) = "fail" -> { ProbeErr(targets[k].check.id) }
      [] OTHER -> CtxErrors

\* C28: in every result Check returns, the status is Fail exactly when the
\* target's probe returned an error; an Ok result has an empty error message
\* and a Fail result has the text of the error its probe returned.
C28_FailIffProbeErred ==
    Returned =>
        \A k \in 1..Len(ckRet.results) :
           \E err \in ProbeReturns(k) :
              /\ ckRet.results[k].Status
                    \in {HealthTargetStatusOk, HealthTargetStatusFail}
              /\ ckRet.results[k].Status = HealthTargetStatusFail <=> err # Nil
              /\ ckRet.results[k].Status = HealthTargetStatusOk
                    => ckRet.results[k].ErrorMessage = <<>>
              /\ ckRet.results[k].Status = HealthTargetStatusFail
                    => /\ ckRet.results[k].ErrorMessage = ErrorText(err)
                       /\ ckRet.results[k].ErrorMessage # <<>>

\* Witness of C28: Check returned an Ok result without a message next to a
\* Fail result carrying its probe's error text.
C28_Witness ==
    /\ Returned
    /\ Len(ckRet.results) = 2
    /\ Kind(1) = "ok"
    /\ ckRet.results[1].Status = HealthTargetStatusOk
    /\ ckRet.results[1].ErrorMessage = <<>>
    /\ Kind(2) = "fail"
    /\ ckRet.results[2].Status = HealthTargetStatusFail
    /\ ckRet.results[2].ErrorMessage = <<"probe error: ", targets[2].Name>>

----------------------------------------------------------------------------
(* InMemoryPingStore under concurrent callers: two goroutines calling      *)
(* SetProcessed with any timestamps and one calling LastProcessed, each    *)
(* call taking s.mu, touching s.last and releasing s.mu.                   *)

Writers == {"w1", "w2"}

Readers == {"r1"}

\* s.mu is held by a writer (Lock) / by a reader (RLock).
MuLocked == \E t \in Writers : psPc[t] \in {"locked", "written"}

MuRLocked == \E t \in Readers : psPc[t] = "rlocked"

psFrame == <<hcVars, egVars, cbVars, wrVars, now, dkVars, pgVars, muVars>>

kfRest == <<pc, pcPc, prodPc, consPc, msgs, pcNextTick, pcTick, pcCtxErr, pcClosePc, pcRet>>

\* SetProcessed(ctx, ts): s.mu.Lock() returns.
SetLock(t, ts) ==
    /\ psPc[t] = "idle"
    /\ ~MuLocked /\ ~MuRLocked
    /\ psPc' = [psPc EXCEPT ![t] = "locked"]
    /\ psTs' = [psTs EXCEPT ![t] = ts]
    /\ UNCHANGED <<store, lastDone, readRet, kfRest, psFrame>>

\* s.last = ts
SetWrite(t) ==
    /\ psPc[t] = "locked"
    /\ store' = SetProcessed(store, psTs[t])
    /\ psPc' = [psPc EXCEPT ![t] = "written"]
    /\ UNCHANGED <<psTs, lastDone, readRet, kfRest, psFrame>>

\* The deferred s.mu.Unlock(); SetProcessed returns nil.
SetUnlock(t) ==
    /\ psPc[t] = "written"
    /\ psPc' = [psPc EXCEPT ![t] = "idle"]
    /\ lastDone' = psTs[t]
    /\ UNCHANGED <<store, psTs, readRet, kfRest, psFrame>>

\* LastProcessed(ctx): s.mu.RLock() returns.
ReadLock(t) ==
    /\ psPc[t] = "idle"
    /\ ~MuLocked
    /\ psPc' = [psPc EXCEPT ![t] = "rlocked"]
    /\ UNCHANGED <<store, psTs, lastDone, readRet, kfRest, psFrame>>

\* return s.last, nil, with the deferred s.mu.RUnlock().
ReadReturn(t) ==
    /\ psPc[t] = "rlocked"
    /\ readRet' = [called |-> TRUE, last |-> LastProcessed(store).last,
                   err |-> LastProcessed(store).err]
    /\ psPc' = [psPc EXCEPT ![t] = "idle"]
    /\ UNCHANGED <<store, psTs, lastDone, kfRest, psFrame>>

NextStore ==
    \/ \E t \in Writers, ts \in 1..MaxTime : SetLock(t, ts)
    \/ \E t \in Writers : SetWrite(t)
    \/ \E t \in Writers : SetUnlock(t)
    \/ \E t \in Readers : ReadLock(t)
    \/ \E t \in Readers : ReadReturn(t)

SpecStore == Init /\ [][NextStore]_vars

\* C29: outside a SetProcessed call that holds the lock, the store holds the
\* timestamp of the SetProcessed call that returned last, the zero time before
\* any; a reader is never inside LastProcessed while a writer holds the lock,
\* and every LastProcessed call returns that timestamp without an error.
C29_LastProcessedIsLastSet ==
    /\ [](/\ ~MuLocked => store.last = lastDone
          /\ ~(MuLocked /\ MuRLocked)
          /\ readRet.err = Nil)
    /\ [][\A t \in Readers :
             (psPc[t] = "rlocked" /\ psPc'[t] = "idle") => readRet'.last = lastDone]_vars

\* Witness of C29: SetProcessed(3) returned, then SetProcessed(1) returned, and
\* with no call in progress the store holds 1 and LastProcessed
\* returned 1, the earlier of the two times.
C29_Witness ==
    /\ readRet.called
    /\ readRet.last = 1
    /\ store.last = 1
    /\ lastDone = 1
    /\ psTs["w1"] = 3
    /\ psTs["w2"] = 1
    /\ psPc = [t \in Writers \cup Readers |-> "idle"]

----------------------------------------------------------------------------
(* The docker check over unbounded time, as in                              *)
(* TestCheck_DetectsContainersStopping: one instance with labels           *)
(* {"app": "status"} and an interval of one tick, containers that run or   *)
(* stop at any time, and a caller that keeps calling Check.                *)

\* Every matching container runs / the matching container "def" has stopped.
RunningWorld == [err |-> Nil, containers |-> <<Container("abc", AppEnvLabels, "running")>>]

StoppedWorld ==
    [err |-> Nil, containers |-> <<Container("abc", AppEnvLabels, "running"),
                                   Container("def", AppEnvLabels, "exited")>>]

\* Half a second passes once the clock shows MaxTime: the origin of the clock
\* moves by one tick instead, so every recorded time is one less.  Ages above
\* MaxTime - 1, all beyond the stale limit of this instance, are not told apart.
DockerClockSlide ==
    /\ now = MaxTime
    /\ dcPc = "constructed"
    /\ dcLastChecked' = IF dcLastChecked > 1 THEN dcLastChecked - 1 ELSE 1
    /\ IF loopPc \in {"select", "refresh"} /\ now + 1 >= dcNextTick
       THEN /\ dcTick' = TRUE
            /\ dcNextTick' = dcNextTick + dc.interval - 1
       ELSE /\ dcTick' = dcTick
            /\ dcNextTick' = IF dcNextTick > 0 THEN dcNextTick - 1 ELSE 0
    /\ UNCHANGED <<now, world, dc, dcPc, newErr, loopPc, dcLastErr, dcCtxErr,
                   dcClosePc, dcRet>>
    /\ UNCHANGED dkFrame

\* A call of Check, under a live context, that finds the cached result fresh.
DockerCheckFresh ==
    /\ now - dcLastChecked <= StaleLimit(dc.interval)
    /\ DockerCheck(Nil)

NextDockerLive ==
    \/ NewCheck(AppLabels, 1, 1)
    \/ NewCheckRefresh
    \/ LoopStart
    \/ LoopTick
    \/ LoopRefresh
    \/ LoopExit
    \/ DockerCheck(Nil)
    \/ DockerClose
    \/ DockerCloseWait
    \/ \E w \in {RunningWorld, StoppedWorld} : WorldChange(w)
    \/ DockerClock
    \/ DockerClockSlide

\* The loop's goroutine is scheduled, time passes, and the caller's polling
\* meets the windows in which the cached result is fresh.
SpecDockerLive ==
    /\ Init
    /\ [][NextDockerLive]_vars
    /\ WF_vars(LoopStart)
    /\ WF_vars(LoopTick)
    /\ WF_vars(LoopRefresh)
    /\ WF_vars(DockerClock)
    /\ WF_vars(DockerClockSlide)
    /\ SF_vars(DockerCheckFresh)

\* The instance is constructed and not closed.
TaskRuns == dcPc = "constructed" /\ dcCtxErr = Nil

\* C30: when the containers stay as they are from some time on while the
\* background task runs, the cached verdict is from some time on that of these
\* containers and Check reports it again and again: the failure once "def" has
\* stopped for good, and success once every matching container runs for good.
C30_CheckEventuallyReportsNewState ==
    /\ <>[](world = StoppedWorld /\ TaskRuns)
          => /\ <>[](dcLastErr = checkContainers(dc.labels, StoppedWorld))
             /\ []<>(/\ dcRet.called
                     /\ dcRet.err = checkContainers(dc.labels, StoppedWorld)
                     /\ dcRet.err # Nil)
    /\ <>[](world = RunningWorld /\ TaskRuns)
          => /\ <>[](dcLastErr = Nil)
             /\ []<>(dcRet.called /\ dcRet.err = Nil)

\* Witness of C30: Check reported success, then "def" stopped and a refresh of
\* the loop, later than the one of the construction, stored the failure.
C30_Witness ==
    /\ TaskRuns
    /\ dcRet.called
    /\ dcRet.err = Nil
    /\ world = StoppedWorld
    /\ dcLastErr = <<"container ", "def", " not running (state=", "exited", ")">>
    /\ loopPc = "select"

----------------------------------------------------------------------------
(* The docker check statement by statement: dc.refresh and dc.Check take   *)
(* dc.mu and touch dc.lastErr and dc.lastChecked one at a time.  Every     *)
(* refresh gets a number, and each field remembers the refresh that wrote   *)
(* it.                                                                      *)

Refreshers == {"new", "loop"}

Checkers == {"c1", "c2"}

\* dc.mu is held by a writer (Lock) / by a reader (RLock).
DcMuLocked == \E c \in Refreshers : rf[c].pc \in {"locked", "wroteErr", "wroteChecked"}

DcMuRLocked == \E k \in Checkers : ck[k].pc \in {"rlocked", "readErr", "readChecked"}

\* Mutant of CanRLock: readers do not wait for the writer.
CanRLockAlways == TRUE

\* dc.mu.RLock() can return.
CanRLock == ~DcMuLocked

\* dc.mu.Lock() can return.
CanLock == ~DcMuLocked /\ ~DcMuRLocked

muFrame == <<hcVars, egVars, cbVars, wrVars, kfVars, pgVars, psVars>>

\* dc.refresh is called: by newCheck, or by the loop that took a tick.
RefreshCall(c) ==
    /\ rf[c].pc = "idle"
    /\ IF c = "new" THEN dcPc = "refresh" ELSE loopPc = "refresh"
    /\ rfCount' = rfCount + 1
    /\ rf' = [rf EXCEPT ![c] = [pc |-> "list", err |-> Nil, id |-> rfCount + 1]]
    /\ UNCHANGED <<now, dkVars, dcFrom, dcTasks, ck, muFrame>>

\* err := dc.checkContainers(ctx)
RefreshList(c) ==
    /\ rf[c].pc = "list"
    /\ \E listing \in ContainerList(dcCtxErr) :
          rf' = [rf EXCEPT ![c].pc = "lock",
                           ![c].err = checkContainers(dc.labels, listing)]
    /\ UNCHANGED <<now, dkVars, rfCount, dcFrom, dcTasks, ck, muFrame>>

\* dc.mu.Lock() returns.
RefreshLock(c) ==
    /\ rf[c].pc = "lock"
    /\ CanLock
    /\ rf' = [rf EXCEPT ![c].pc = "locked"]
    /\ UNCHANGED <<now, dkVars, rfCount, dcFrom, dcTasks, ck, muFrame>>

\* dc.lastErr = err
RefreshWriteErr(c) ==
    /\ rf[c].pc = "locked"
    /\ dcLastErr' = RefreshStore(rf[c].err, now).lastErr
    /\ dcFrom' = [dcFrom EXCEPT !.err = rf[c].id]
    /\ rf' = [rf EXCEPT ![c].pc = "wroteErr"]
    /\ UNCHANGED <<now, world, dc, dcPc, newErr, loopPc, dcLastChecked, dcNextTick,
                   dcTick, dcCtxErr, dcClosePc, dcRet>>
    /\ UNCHANGED <<rfCount, dcTasks, ck, muFrame>>

\* dc.lastChecked = time.Now()
RefreshWriteChecked(c) ==
    /\ rf[c].pc = "wroteErr"
    /\ dcLastChecked' = RefreshStore(rf[c].err, now).lastChecked
    /\ dcFrom' = [dcFrom EXCEPT !.checked = rf[c].id]
    /\ rf' = [rf EXCEPT ![c].pc = "wroteChecked"]
    /\ UNCHANGED <<now, world, dc, dcPc, newErr, loopPc, dcLastErr, dcNextTick,
                   dcTick, dcCtxErr, dcClosePc, dcRet>>
    /\ UNCHANGED <<rfCount, dcTasks, ck, muFrame>>

\* dc.mu.Unlock() and refresh returns: newCheck goes on to `go dc.loop()` and
\* returns the instance; the loop is back at its select.
RefreshUnlock(c) ==
    /\ rf[c].pc = "wroteChecked"
    /\ rf' = [rf EXCEPT ![c].pc = "idle"]
    /\ IF c = "new"
       THEN /\ dcPc' = "constructed"
            /\ loopPc' = "start"
            /\ dcTasks' = dcTasks + 1
       ELSE /\ loopPc' = AfterRefresh(rf[c].err)
            /\ UNCHANGED <<dcPc, dcTasks>>
    /\ UNCHANGED <<now, world, dc, newErr, dcLastErr, dcLastChecked, dcNextTick,
                   dcTick, dcCtxErr, dcClosePc, dcRet>>
    /\ UNCHANGED <<rfCount, dcFrom, ck, muFrame>>

\* dc.Check(ctx) under a live context: dc.mu.RLock() returns.
CheckRLock(k) ==
    /\ dcPc = "constructed"
    /\ ck[k].pc = "idle"
    /\ CanRLock
    /\ ck' = [ck EXCEPT ![k].pc = "rlocked"]
    /\ UNCHANGED <<now, dkVars, rf, rfCount, dcFrom, dcTasks, muFrame>>

\* lastErr := dc.lastErr
CheckReadErr(k) ==
    /\ ck[k].pc = "rlocked"
    /\ ck' = [ck EXCEPT ![k].pc = "readErr",
                        ![k].lastErr = dcLastErr,
                        ![k].errFrom = dcFrom.err]
    /\ UNCHANGED <<now, dkVars, rf, rfCount, dcFrom, dcTasks, muFrame>>

\* lastChecked := dc.lastChecked
CheckReadChecked(k) ==
    /\ ck[k].pc = "readErr"
    /\ ck' = [ck EXCEPT ![k].pc = "readChecked",
                        ![k].lastChecked = dcLastChecked,
                        ![k].checkedFrom = dcFrom.checked]
    /\ UNCHANGED <<now, dkVars, rf, rfCount, dcFrom, dcTasks, muFrame>>

\* dc.mu.RUnlock(), and Check returns what its two locals give.
CheckRUnlock(k) ==
    /\ ck[k].pc = "readChecked"
    /\ dcRet' = [called |-> TRUE, ctxErr |-> Nil, lastErr |-> ck[k].lastErr,
                 since |-> now - ck[k].lastChecked,
                 err |-> DockerCheckReturn(Nil, ck[k].lastErr, ck[k].lastChecked,
                                           now - ck[k].lastChecked, dc.interval)]
    /\ ck' = [ck EXCEPT ![k] = [pc |-> "idle", lastErr |-> Nil, lastChecked |-> 0,
                                errFrom |-> 0, checkedFrom |-> 0]]
    /\ UNCHANGED <<now, world, dc, dcPc, newErr, loopPc, dcLastErr, dcLastChecked,
                   dcNextTick, dcTick, dcCtxErr, dcClosePc>>
    /\ UNCHANGED <<rf, rfCount, dcFrom, dcTasks, muFrame>>

NextDockerMu ==
    \/ NewCheck(AppLabels, 1, 1)
    \/ \E c \in Refreshers : RefreshCall(c)
    \/ \E c \in Refreshers : RefreshList(c)
    \/ \E c \in Refreshers : RefreshLock(c)
    \/ \E c \in Refreshers : RefreshWriteErr(c)
    \/ \E c \in Refreshers : RefreshWriteChecked(c)
    \/ \E c \in Refreshers : RefreshUnlock(c)
    \/ LoopStart
    \/ LoopTick
    \/ LoopExit
    \/ \E k \in Checkers : CheckRLock(k)
    \/ \E k \in Checkers : CheckReadErr(k)
    \/ \E k \in Checkers : CheckReadChecked(k)
    \/ \E k \in Checkers : CheckRUnlock(k)
    \/ DockerClose
    \/ DockerCloseWait
    \/ \E w \in {RunningWorld, StoppedWorld} : WorldChange(w)
    \/ DockerClock

SpecDockerMu == Init /\ [][NextDockerMu]_vars

\* C31: at most one `go dc.loop()` is ever executed and a constructed
\* instance has executed exactly one; the refresh of newCheck and a refresh of
\* the loop are never in progress together, the loop does not exist before
\* the refresh of newCheck has returned, and no refresh writes before that of
\* newCheck did; outside the exclusive lock both fields come from the same
\* refresh; and the two locals of a Check come from the same refresh.
C31_OneTaskSingleWriter ==
    /\ dcTasks <= 1
    /\ dcPc = "constructed" <=> dcTasks = 1
    /\ ~(rf["new"].pc # "idle" /\ rf["loop"].pc # "idle")
    /\ rf["new"].pc # "idle" => loopPc = "none"
    /\ rf["loop"].pc # "idle" => (dcPc = "constructed" /\ dcFrom.checked >= 1)
    /\ ~DcMuLocked => dcFrom.err = dcFrom.checked
    /\ ~(DcMuLocked /\ DcMuRLocked)
    /\ \A k \in Checkers :
          ck[k].pc = "readChecked" =>
             /\ ck[k].errFrom = ck[k].checkedFrom
             /\ ck[k].errFrom >= 1

\* Witness of C31: a Check holds both values of the loop's first refresh (the
\* second of the instance) in its locals, read while the loop, in its next
\* refresh, waits for the lock with a different verdict to store.
C31_Witness ==
    /\ ck["c1"].pc = "readChecked"
    /\ ck["c1"].errFrom = 2
    /\ ck["c1"].checkedFrom = 2
    /\ rf["loop"].pc = "lock"
    /\ rf["loop"].id = 3
    /\ rf["loop"].err # ck["c1"].lastErr

----------------------------------------------------------------------------
(* Further properties of the wrappers, checked under SpecWrap *)

\* WithRetries has made all its invocations and every one of them failed.
AllAttemptsFailed ==
    /\ wr.kind = "WithRetries"
    /\ wr.attempts >= 1
    /\ Len(rInv) = wr.attempts
    /\ \A j \in 1..Len(rInv) : rInv[j] # Nil

\* C32: once all `attempts` invocations have failed, WithRetries does not
\* wait again, and what it returns is the failure of the final invocation,
\* whether or not the caller's context is cancelled after that invocation.
C32_NoWaitAfterFinalAttempt ==
    AllAttemptsFailed =>
        /\ rpc # "select"
        /\ rpc = "returned" => rRet = rInv[Len(rInv)]

----------------------------------------------------------------------------
(* The kafka ping check with a prompt broker: every send succeeds, and the *)
(* producer has taken its tick and the consumer has taken every message    *)
(* before more time passes.  Check is called at any moment.                *)

\* Nothing is pending: no tick to take, no message to consume.
Prompt == pcPc = "running" => (prodPc # "start" /\ ~pcTick /\ msgs = <<>>)

NextKafkaPrompt ==
    \/ \E staleAfter \in StaleAfters : PingCheck(staleAfter, "ok")
    \/ ProduceStart(TRUE)
    \/ ProduceTick(TRUE)
    \/ ConsumeMessage
    \/ KafkaCheck(Nil)
    \/ Prompt /\ KafkaClock

SpecKafkaPrompt == Init /\ [][NextKafkaPrompt]_vars

\* C33: with a prompt broker, a Check that reads the timestamp of a consumed
\* ping never fails as stale, whatever the positive staleAfter.
C33_NeverStaleWithPromptBroker ==
    (pcPc = "running" /\ pcRet.calls > 0 /\ pcRet.last # 0) => pcRet.err = Nil

----------------------------------------------------------------------------
(* Further properties of WithRetries, checked under SpecWrap *)

\* C34: whatever the integer `attempts`, WithRetries returns success only
\* when an invocation of the wrapped probe made during the call succeeded.
C34_SuccessNeedsSuccessfulInvocation ==
    (wr.kind = "WithRetries" /\ rpc = "returned" /\ rRet = Nil)
        => \E j \in 1..Len(rInv) : rInv[j] = Nil

----------------------------------------------------------------------------
(* The docker check on time: the refresh timeout is at most the interval,  *)
(* the loop's goroutine starts and takes each tick as soon as it can, and  *)
(* a refresh of the loop returns within its timeout.                       *)

\* When the refresh in progress began: at the tick the loop took, which is
\* the last tick fired, or the one before when a tick fired during the refresh.
RefreshBegan == dcNextTick - dc.interval * (IF dcTick THEN 2 ELSE 1)

\* Half a second can pass: the goroutine has started, no tick waits to be
\* taken, and a refresh in progress is still within its timeout afterwards.
OnTime ==
    CASE loopPc = "start" -> FALSE
      [] loopPc = "select" -> ~dcTick
      [] loopPc = "refresh" -> now + 1 <= RefreshBegan + dc.timeout
      [] OTHER -> TRUE

NextDockerTimed ==
    \/ \E interval \in {1, 2} : \E timeout \in 1..interval :
          NewCheck(AppLabels, interval, timeout)
    \/ NewCheckRefresh
    \/ LoopStart
    \/ LoopTick
    \/ LoopRefresh
    \/ LoopExit
    \/ DockerCheck(Nil)
    \/ DockerClose
    \/ DockerCloseWait
    \/ \E w \in {RunningWorld, StoppedWorld} : WorldChange(w)
    \/ OnTime /\ DockerClock

SpecDockerTimed == Init /\ [][NextDockerTimed]_vars

\* C35: while the instance runs, not shut down, the cached result is never
\* older than two intervals, and no Check has failed as stale: every Check
\* under a live context returned the cached verdict.
C35_NeverStaleOnTime ==
    (dcPc = "constructed" /\ dcClosePc = "none") =>
        /\ dc.timeout <= dc.interval
        /\ now - dcLastChecked <= 2 * dc.interval
        /\ dcRet.called =>
              /\ dcRet.since <= 2 * dc.interval
              /\ dcRet.err = dcRet.lastErr

\* Witness of C35: a Check made when the cached result was exactly two
\* intervals old, the refresh in progress having used its whole timeout,
\* returned the cached verdict.
C35_Witness ==
    /\ dcPc = "constructed" /\ dcClosePc = "none"
    /\ loopPc = "refresh"
    /\ dcRet.called
    /\ dcRet.since = 2 * dc.interval
    /\ now - dcLastChecked = 2 * dc.interval
    /\ dcRet.err = dcRet.lastErr

----------------------------------------------------------------------------
(* Termination of Any and WithThreshold, checked under SpecComb *)

\* C36: in a run of Any or WithThreshold the channel always has room for
\* the result of every worker still running, so a worker whose sub-probe can
\* return can send at once; when no worker is running (also with no
\* sub-probe at all, and with the caller's context cancelled or not) g.Wait
\* returns and the combinator returns; and it has returned, closing the
\* channel on the way, only with every worker finished.
C36_ChanCombinatorsReturn ==
    comb.kind \in {"Any", "WithThreshold"} =>
        /\ Len(chan) <= Len(comb.checks)
        /\ \A i \in 1..Len(wpc) :
              (kpc \in {"launch", "wait"} /\ wpc[i] = "running") =>
                 /\ Len(chan) < Len(comb.checks)
                 /\ ProbeCanReturn(comb.checks[i], SubCtx)
                       => ENABLED ChanWorker(i, "send")
        /\ (kpc = "wait" /\ \A i \in 1..Len(wpc) : wpc[i] = "done")
              => ENABLED CombWait
        /\ kpc = "returned" => \A i \in 1..Len(wpc) : wpc[i] = "done"

\* Witness of C36: WithThreshold over two sub-probes returned after the
\* caller's context was cancelled, both workers having sent their results
\* into a channel that is now full.
C36_Witness ==
    /\ comb.kind = "WithThreshold"
    /\ kpc = "returned"
    /\ callerErr # Nil
    /\ Len(comb.checks) = 2
    /\ Len(chan) = 2
    /\ kRet # Nil

----------------------------------------------------------------------------
(* HealthChecker with WithTarget called while Check runs.  c.targets has    *)
(* no lock: Check reads it for make([]HealthCheckResult, len(c.targets)),  *)
(* again for `range c.targets`, and WithTarget's append may fall anywhere   *)
(* between.  A write beyond the end of results is a run-time panic.        *)

\* c.WithTarget(name, check), at any moment.
RaceWithTarget(name, kind) ==
    /\ Len(targets) < MaxTargets
    /\ cpc # "panicked"
    /\ targets' = Append(targets, NewTarget(name, [kind |-> kind, id |-> name], <<>>))
    /\ UNCHANGED <<hpc, query, respCode, respBody, cpc, ci, results, ckRet, finished>>
    /\ UNCHANGED <<egVars, cbVars, xVars>>

\* Check begins: results := make([]HealthCheckResult, len(c.targets)) and
\* errgroup.WithContext.
RaceCheckMake ==
    /\ cpc \in {"none", "returned"}
    /\ results' = [k \in 1..Len(targets) |-> ZeroResult]
    /\ cpc' = "made"
    /\ ci' = 0
    /\ wpc' = <<>>
    /\ ckRet' = [results |-> <<>>, err |-> Nil]
    /\ finished' = <<>>
    /\ callerErr' = Nil
    /\ gctxErr' = Nil
    /\ gErr' = Nil
    /\ UNCHANGED <<targets, hpc, query, respCode, respBody>>
    /\ UNCHANGED <<cbVars, xVars>>

\* `for i := range c.targets`: the slice is read once more, and its length
\* then is the number of iterations.
RaceCheckRange ==
    /\ cpc = "made"
    /\ wpc' = [k \in 1..Len(targets) |-> "none"]
    /\ cpc' = IF Len(targets) = 0 THEN "wait" ELSE "launch"
    /\ UNCHANGED <<targets, hpc, query, respCode, respBody, ci, results, ckRet, finished>>
    /\ UNCHANGED <<callerErr, gctxErr, gErr>>
    /\ UNCHANGED <<cbVars, xVars>>

\* One iteration of the loop: g.Go starts the worker of index i.
RaceCheckGo ==
    /\ cpc = "launch"
    /\ ci' = ci + 1
    /\ wpc' = [wpc EXCEPT ![ci + 1] = "running"]
    /\ cpc' = IF ci + 1 = Len(wpc) THEN "wait" ELSE "launch"
    /\ UNCHANGED <<targets, hpc, query, respCode, respBody, results, ckRet, finished>>
    /\ UNCHANGED <<callerErr, gctxErr, gErr>>
    /\ UNCHANGED <<cbVars, xVars>>

\* The worker of index i: its probe returns and it assigns results[index],
\* which panics (index out of range) when results has no such index.
RaceWorker(i) ==
    /\ cpc \in {"launch", "wait"}
    /\ wpc[i] = "running"
    /\ ProbeCanReturn(targets[i].check, ProbeCtx)
    /\ IF i \in 1..Len(results)
       THEN /\ results' = StoreResult(results, i,
                             NewResult(targets[i], ProbeReturn(targets[i].check, ProbeCtx)))
            /\ wpc' = [wpc EXCEPT ![i] = "done"]
            /\ finished' = Append(finished, i)
            /\ UNCHANGED cpc
       ELSE /\ cpc' = "panicked"
            /\ UNCHANGED <<results, wpc, finished>>
    /\ UNCHANGED <<targets, hpc, query, respCode, respBody, ci, ckRet>>
    /\ UNCHANGED <<callerErr, gctxErr, gErr>>
    /\ UNCHANGED <<cbVars, xVars>>

NextRace ==
    \/ \E name \in Names, kind \in {"ok", "fail"} : RaceWithTarget(name, kind)
    \/ RaceCheckMake
    \/ RaceCheckRange
    \/ RaceCheckGo
    \/ \E i \in 1..Len(wpc) : RaceWorker(i)
    \/ CheckWait

SpecRace == Init /\ [][NextRace]_vars

\* C37: with WithTarget running at any moment of a Check, no worker is
\* launched for an index that results does not have, no worker's write is out
\* of bounds, and Check returns one result for each target that was
\* registered when it started, the k-th for the k-th target.
C37_ConcurrentWithTargetIsSafe ==
    /\ cpc \in {"launch", "wait", "returned"} => Len(wpc) <= Len(results)
    /\ cpc # "panicked"
    /\ cpc = "returned" =>
          /\ Len(ckRet.results) = Len(results)
          /\ \A k \in 1..Len(ckRet.results) : ckRet.results[k].Target = targets[k]

----------------------------------------------------------------------------
(* The ping check against a store the caller supplied and a topic that     *)
(* carries messages of any timestamp: PingCheck takes a PingStore, whose   *)
(* LastProcessed may fail, and consumeLoop records msg.Timestamp of every  *)
(* message of the partition, whoever produced it.                          *)

\* The errors LastProcessed of a caller's PingStore returns.
StoreErrs == {<<"store down">>}

\* The timestamps of the messages other producers leave on the topic.
ForeignTimes == {1, 3}

\* A message with the timestamp ts reaches the partition.
ForeignMessage(ts) ==
    /\ pcPc = "running"
    /\ Len(msgs) < MaxMsgs
    /\ msgs' = Append(msgs, ts)
    /\ UNCHANGED <<now, pc, pcPc, prodPc, consPc, store, pcNextTick, pcTick, pcCtxErr,
                   pcClosePc, pcRet>>
    /\ UNCHANGED kfFrame

\* pc.Check(ctx) when pc.store.LastProcessed returns the error readErr, or
\* the stored time when readErr is nil.
KafkaCheckStore(readErr) ==
    /\ pcPc = "running"
    /\ LET read == IF readErr = Nil THEN LastProcessed(store)
                   ELSE [last |-> 0, err |-> readErr]
       IN pcRet' = [calls |-> IF pcRet.calls < 2 THEN pcRet.calls + 1 ELSE 2,
                    ctxErr |-> Nil,
                    last |-> read.last,
                    err |-> KafkaCheckReturn(read, pc.staleAfter)]
    /\ UNCHANGED <<now, pc, pcPc, prodPc, consPc, store, msgs, pcNextTick, pcTick,
                   pcCtxErr, pcClosePc>>
    /\ UNCHANGED kfFrame

NextKafkaStore ==
    \/ \E staleAfter \in StaleAfters : PingCheck(staleAfter, "ok")
    \/ ProduceStart(TRUE)
    \/ ProduceTick(TRUE)
    \/ \E ts \in ForeignTimes : ForeignMessage(ts)
    \/ ConsumeMessage
    \/ \E readErr \in {Nil} \cup StoreErrs : KafkaCheckStore(readErr)
    \/ KafkaClock

SpecKafkaStore == Init /\ [][NextKafkaStore]_vars

\* C38: a Check whose store read fails returns a failure; one that reads the
\* zero time returns 'ping store has no recorded timestamp'; one that reads a
\* time more than staleAfter before now returns a 'last ping is stale'
\* failure; every other Check returns nil.  Consuming a message leaves its
\* timestamp in the store, also when it is earlier than the one stored.
C38_KafkaCheckVerdicts ==
    /\ [][\A readErr \in {Nil} \cup StoreErrs :
             KafkaCheckStore(readErr) =>
                 CASE readErr # Nil ->
                          /\ pcRet'.err # Nil
                          /\ pcRet'.err[1] = "failed to read ping store: "
                   [] readErr = Nil /\ store.last = 0 ->
                          pcRet'.err = NoTimestamp
                   [] readErr = Nil /\ store.last # 0
                                    /\ now - store.last > pc.staleAfter ->
                          /\ pcRet'.err # Nil
                          /\ pcRet'.err[1] = "last ping is stale: age="
                   [] OTHER -> pcRet'.err = Nil]_vars
    /\ [][ConsumeMessage => store'.last = Head(msgs)]_vars

\* Witness of C38: a Check read the time 3 from the store and returned nil,
\* and a message of time 1 consumed after it left 1 in the store.
C38_Witness ==
    /\ pcPc = "running"
    /\ pcRet.calls > 0
    /\ pcRet.last = 3
    /\ pcRet.err = Nil
    /\ store.last = 1
    /\ msgs = <<>>

----------------------------------------------------------------------------
(* WithTimeout on the clock: the caller's context may carry a deadline and *)
(* may be done when Check is entered, and the timeout may be zero or less. *)

\* The caller's context has no deadline.
NoDeadline == -1

\* Err() of a context of the deadline deadline at the time t, ctxErr being its
\* Err() before.
AtDeadline(ctxErr, deadline, t) ==
    IF deadline # NoDeadline /\ t >= deadline
    THEN CancelCtx(ctxErr, DeadlineExceeded) ELSE ctxErr

\* Deadline() of context.WithTimeout(ctx, timeout), the deadline of ctx
\* being parentDeadline: the parent's when it is the earlier one.
WithTimeoutDeadline(parentDeadline, timeout) ==
    IF parentDeadline # NoDeadline /\ parentDeadline < now + timeout
    THEN parentDeadline ELSE now + timeout

wtFrame == <<hcVars, gctxErr, gErr, wpc, cbVars, dkVars, kfVars, pgVars, psVars, muVars>>

\* WithTimeout(check, timeout).Check(ctx) up to the call of the inner probe,
\* ctx having the deadline ctxDeadline and being cancelled already or not.
TimeoutCheckAt(kind, timeout, ctxDeadline, cancelled) ==
    /\ rpc \in {"idle", "returned"}
    /\ LET ctxErr == AtDeadline(IF cancelled THEN Canceled ELSE Nil, ctxDeadline, now)
           deadline == WithTimeoutDeadline(ctxDeadline, timeout)
       IN /\ wr' = [kind |-> "WithTimeout", attempts |-> 1, delay |-> 0,
                    script |-> <<kind>>, timeout |-> timeout, entered |-> now,
                    ctxDeadline |-> ctxDeadline, deadline |-> deadline]
          /\ callerErr' = ctxErr
          /\ tctxErr' = AtDeadline(ctxErr, deadline, now)
          /\ tFired' = (now >= now + timeout)
    /\ ri' = 0
    /\ rInv' = <<>>
    /\ rLastErr' = Nil
    /\ rRet' = Nil
    /\ rWaitCancel' = -1
    /\ rpc' = "invoke"
    /\ UNCHANGED <<now, wtFrame>>

\* The caller cancels its context while the inner probe runs.
TimeoutCtxCancel ==
    /\ wr.kind = "WithTimeout"
    /\ rpc = "invoke"
    /\ callerErr = Nil
    /\ callerErr' = Canceled
    /\ tctxErr' = CancelCtx(tctxErr, Canceled)
    /\ UNCHANGED <<wr, rpc, ri, rInv, rLastErr, rRet, tFired, rWaitCancel, now, wtFrame>>

\* Half a second passes while the inner probe runs: the timers of the two
\* contexts fire when their deadlines have come, the caller's cancelling the
\* derived context with it.
TimeoutClock ==
    /\ wr.kind = "WithTimeout"
    /\ rpc = "invoke"
    /\ now < MaxTime
    /\ now' = now + 1
    /\ callerErr' = AtDeadline(callerErr, wr.ctxDeadline, now + 1)
    /\ tctxErr' = AtDeadline(CancelCtx(tctxErr, AtDeadline(callerErr, wr.ctxDeadline, now + 1)),
                             wr.deadline, now + 1)
    /\ tFired' = (now + 1 >= wr.entered + wr.timeout)
    /\ UNCHANGED <<wr, rpc, ri, rInv, rLastErr, rRet, rWaitCancel, wtFrame>>

\* The inner probe returns, as in TimeoutProbeReturn.
TimeoutReturnAt ==
    /\ TimeoutProbeReturn
    /\ UNCHANGED now

NextTimeout ==
    \/ \E kind \in ProbeKinds, timeout \in (-1)..2,
          ctxDeadline \in {NoDeadline} \cup 1..MaxTime, cancelled \in BOOLEAN :
             TimeoutCheckAt(kind, timeout, ctxDeadline, cancelled)
    \/ TimeoutCtxCancel
    \/ TimeoutClock
    \/ TimeoutReturnAt

SpecTimeout == Init /\ [][NextTimeout]_vars

\* The earlier of the caller's deadline and the time timeout after entry.
EarlierDeadline ==
    IF wr.ctxDeadline = NoDeadline THEN wr.entered + wr.timeout
    ELSE IF wr.ctxDeadline < wr.entered + wr.timeout THEN wr.ctxDeadline
    ELSE wr.entered + wr.timeout

\* C39: from the call of the inner probe on, the context WithTimeout derived
\* is done whenever the caller's context is done (cancelled or past its
\* deadline); its deadline is the earlier of the caller's deadline and the
\* time of entry plus the timeout, and it is done once that time has come;
\* while the probe runs it is done only for one of these reasons; and it is
\* done when the wrapper has returned.
C39_DerivedContextDoneNoLater ==
    wr.kind = "WithTimeout" =>
        /\ callerErr # Nil => tctxErr # Nil
        /\ wr.deadline = EarlierDeadline
        /\ now >= EarlierDeadline => tctxErr # Nil
        /\ (rpc = "invoke" /\ tctxErr # Nil) => (callerErr # Nil \/ now >= EarlierDeadline)
        /\ rpc = "returned" => tctxErr # Nil

\* Witness of C39: a probe that returned at once under live contexts, the
\* timeout and the caller's deadline both being ahead: the derived context
\* was cancelled by the wrapper's return alone.
C39_Witness ==
    /\ WrapReturned("WithTimeout")
    /\ wr.script[1] = "ok"
    /\ rRet = Nil
    /\ callerErr = Nil
    /\ now < EarlierDeadline
    /\ wr.ctxDeadline # NoDeadline
    /\ tctxErr = Canceled

====
